---------------------------- MODULE Spec2Model ----------------------------
(***************************************************************************)
(* Model of semantic-pr-release-drafter: the version resolver              *)
(* (src/lib/versions.js), the bump policy (src/lib/semantic-commits.js),   *)
(* the release-info assembler and release lookup (src/lib/releases.js)     *)
(* and the drafter handler (src/index.js).                                 *)
(***************************************************************************)
EXTENDS Integers, Sequences, FiniteSets, TLC

VARIABLES
  defaultVersionInfo,  \* the module-level table of versions.js ($RESOLVED_VERSION entry)
  viCall,              \* the getVersionInfo call that last returned: arguments and result
  bumpCall,            \* the resolveVersionBump call that last returned
  releases,            \* the repository's releases, in the order the API lists them
  nextId,              \* id the hosting API gives the next created release
  config,              \* the drafter configuration of the repository
  run,                 \* what the last drafter run read and wrote
  genFirst,            \* an earlier generateReleaseInfo call: arguments and output
  genLast,             \* the generateReleaseInfo call that last returned
  parseCall,           \* the parseSemanticCommit / fromCommits call that last returned
  renderCall,          \* the renderWithConfig / generateChangeLog call that last returned
  assets,              \* the assets of the releases: pairs of release id and file name
  libCall              \* the findReleases / contributorsSentence call that last returned

vars == <<defaultVersionInfo, viCall, bumpCall, releases, nextId, config, run,
          genFirst, genLast, parseCall, renderCall, assets, libCall>>

(***************************************************************************)
(* Bounds of the model.                                                    *)
(***************************************************************************)
MaxVer == 1
MaxReleases == 2
MaxItems == 2
MaxLines == 2
MaxCommits == 2
MaxTitle == 4
MaxRender == 3
MaxCollapse == 2
MaxFind == 3

(***************************************************************************)
(* Optional values: <<>> is undefined/null, <<x>> is x.                    *)
(***************************************************************************)
None == <<>>
Some(x) == <<x>>
IsSome(o) == Len(o) = 1
Get(o) == o[1]

(***************************************************************************)
(* Semantic versions as the semver library parses them.  A prerelease      *)
(* identifier is numeric or alphanumeric.                                  *)
(***************************************************************************)
Num(n) == [k |-> "num", n |-> n, s |-> ""]
Str(s) == [k |-> "str", n |-> 0, s |-> s]
IsNum(i) == i.k = "num"

SemVer(ma, mi, pa, pre) == [major |-> ma, minor |-> mi, patch |-> pa, prerelease |-> pre]

\* Lexical rank of the alphanumeric identifiers the model uses.
StrRank(s) == CASE s = "alpha" -> 1 [] s = "beta" -> 2 [] s = "rc" -> 3 [] OTHER -> 0

Cmp(a, b) == IF a < b THEN -1 ELSE IF a > b THEN 1 ELSE 0

\* semver's compareIdentifiers: numbers below strings, numbers numerically,
\* strings lexically.
compareIdentifiers(a, b) ==
  IF IsNum(a) /\ IsNum(b) THEN Cmp(a.n, b.n)
  ELSE IF IsNum(a) THEN -1
  ELSE IF IsNum(b) THEN 1
  ELSE Cmp(StrRank(a.s), StrRank(b.s))

RECURSIVE comparePreFrom(_, _, _)
comparePreFrom(p, q, i) ==
  IF i > Len(p) /\ i > Len(q) THEN 0
  ELSE IF i > Len(q) THEN 1
  ELSE IF i > Len(p) THEN -1
  ELSE IF compareIdentifiers(p[i], q[i]) # 0 THEN compareIdentifiers(p[i], q[i])
  ELSE comparePreFrom(p, q, i + 1)

\* SemVer.comparePre: a version with a prerelease tag is below the same
\* version without one.
comparePre(a, b) ==
  IF Len(a.prerelease) > 0 /\ Len(b.prerelease) = 0 THEN -1
  ELSE IF Len(a.prerelease) = 0 /\ Len(b.prerelease) > 0 THEN 1
  ELSE IF Len(a.prerelease) = 0 /\ Len(b.prerelease) = 0 THEN 0
  ELSE comparePreFrom(a.prerelease, b.prerelease, 1)

compareMain(a, b) ==
  IF a.major # b.major THEN Cmp(a.major, b.major)
  ELSE IF a.minor # b.minor THEN Cmp(a.minor, b.minor)
  ELSE Cmp(a.patch, b.patch)

SemverCompare(a, b) ==
  IF compareMain(a, b) # 0 THEN compareMain(a, b) ELSE comparePre(a, b)

SemverGt(a, b) == SemverCompare(a, b) > 0

\* SemVer.inc('pre', identifier)
RECURSIVE bumpLastNumeric(_, _)
bumpLastNumeric(pre, i) ==
  IF i = 0 THEN Append(pre, Num(0))
  ELSE IF IsNum(pre[i]) THEN [pre EXCEPT ![i] = Num(pre[i].n + 1)]
  ELSE bumpLastNumeric(pre, i - 1)

incPre(pre, identifier) ==
  LET stepped == IF Len(pre) = 0 THEN <<Num(0)>> ELSE bumpLastNumeric(pre, Len(pre))
  IN IF identifier = "" THEN stepped
     ELSE IF stepped[1] = Str(identifier)
          THEN IF Len(stepped) >= 2 /\ IsNum(stepped[2]) THEN stepped
               ELSE <<Str(identifier), Num(0)>>
          ELSE <<Str(identifier), Num(0)>>

\* semver.inc(version, release, loose, identifier)
SemverInc(v, release, identifier) ==
  CASE release = "premajor" ->
         SemVer(v.major + 1, 0, 0, incPre(<<>>, identifier))
    [] release = "preminor" ->
         SemVer(v.major, v.minor + 1, 0, incPre(<<>>, identifier))
    [] release = "prepatch" ->
         SemVer(v.major, v.minor, v.patch + 1, incPre(<<>>, identifier))
    [] release = "prerelease" ->
         IF Len(v.prerelease) = 0
         THEN SemVer(v.major, v.minor, v.patch + 1, incPre(<<>>, identifier))
         ELSE SemVer(v.major, v.minor, v.patch, incPre(v.prerelease, identifier))
    [] release = "major" ->
         IF v.minor # 0 \/ v.patch # 0 \/ Len(v.prerelease) = 0
         THEN SemVer(v.major + 1, 0, 0, <<>>)
         ELSE SemVer(v.major, 0, 0, <<>>)
    [] release = "minor" ->
         IF v.patch # 0 \/ Len(v.prerelease) = 0
         THEN SemVer(v.major, v.minor + 1, 0, <<>>)
         ELSE SemVer(v.major, v.minor, 0, <<>>)
    [] release = "patch" ->
         IF Len(v.prerelease) = 0
         THEN SemVer(v.major, v.minor, v.patch + 1, <<>>)
         ELSE SemVer(v.major, v.minor, v.patch, <<>>)


(***************************************************************************)
(* Version strings as the callers supply them.  A "semver" string parses   *)
(* strictly; a "loose" string (such as 1 or 1-rc.0 written without minor   *)
(* and patch) only coerces, which drops its prerelease tag; a "garbage"    *)
(* string holds no version at all.                                         *)
(***************************************************************************)
Zero == SemVer(0, 0, 0, <<>>)
Raw(kind, v) == [kind |-> kind, v |-> v]
Garbage == Raw("garbage", Zero)

\* semver.parse: the strict parse, null when it fails.
SemverParse(raw) == IF raw.kind = "semver" THEN Some(raw.v) ELSE None

\* semver.coerce: the leading MAJOR.MINOR.PATCH digits, without prerelease.
SemverCoerce(raw) ==
  IF raw.kind = "garbage" THEN None
  ELSE Some(SemVer(raw.v.major, raw.v.minor, raw.v.patch, <<>>))

toSemver(raw) == IF IsSome(SemverParse(raw)) THEN SemverParse(raw) ELSE SemverCoerce(raw)

\* coerceVersion on a string input (the tag prefix already split off by stripTag).
coerceVersionString(input) == IF IsSome(input) THEN toSemver(Get(input)) ELSE None

ReleaseObject(tag, name) == [tag_name |-> tag, name |-> name]

\* coerceVersion on a release object: its tag_name, else its name.
coerceVersionRelease(input) ==
  IF ~IsSome(input) THEN None
  ELSE IF IsSome(toSemver(Get(input).tag_name)) THEN toSemver(Get(input).tag_name)
  ELSE toSemver(Get(input).name)

hasPreReleaseTag(version) == IsSome(version) /\ Len(Get(version).prerelease) > 0

startsWithPre(inc) == inc \in {"prepatch", "preminor", "premajor", "prerelease"}

\* Variant: the version point is the version itself, not its increment.
splitSemVersion_NoIncrement(version, inc, preReleaseIdentifier) == version

\* splitSemVersion(input, 'version') with input.inc set: a version point, or
\* undefined when there is no prior version.
splitSemVersion(version, inc, preReleaseIdentifier) ==
  IF ~IsSome(version) THEN None
  ELSE Some(SemverInc(Get(version), inc, preReleaseIdentifier))

\* splitSemVersion(input, 'inputVersion'): input.inc is unset, the version is
\* taken as it is.
splitInputVersion(inputVersion) == inputVersion

VersionInfo(nmajor, nminor, npatch, npre, input, resolved) ==
  [NEXT_MAJOR_VERSION |-> nmajor, NEXT_MINOR_VERSION |-> nminor,
   NEXT_PATCH_VERSION |-> npatch, NEXT_PRERELEASE_VERSION |-> npre,
   INPUT_VERSION |-> input, RESOLVED_VERSION |-> resolved]

\* const defaultVersionInfo, as the module is loaded.
InitialDefaultVersionInfo ==
  VersionInfo(Some(SemVer(1, 0, 0, <<>>)), Some(SemVer(0, 1, 0, <<>>)),
              Some(SemVer(0, 1, 0, <<>>)), Some(SemVer(0, 1, 0, <<Str("rc"), Num(0)>>)),
              None, Some(SemVer(0, 1, 0, <<>>)))

\* Variant: the input version only as a floor under the computed version.
resolvedOfTemplatable_Floor(inputPoint, computedPoint) ==
  IF IsSome(inputPoint) /\ IsSome(computedPoint)
  THEN IF SemverGt(Get(inputPoint), Get(computedPoint)) THEN inputPoint ELSE computedPoint
  ELSE IF IsSome(inputPoint) THEN inputPoint ELSE computedPoint

\* The $RESOLVED_VERSION getTemplatableVersion ends with: an input version wins.
resolvedOfTemplatable(inputPoint, computedPoint) ==
  IF IsSome(inputPoint) THEN inputPoint ELSE computedPoint

\* versionKeyIncrement "" stands for null/undefined.
getTemplatableVersion(version, inputVersion, versionKeyIncrement, preReleaseIdentifier) ==
  LET inc == IF versionKeyIncrement = "" THEN "patch" ELSE versionKeyIncrement
      inputPoint == splitInputVersion(inputVersion)
      computed == splitSemVersion(version, inc, preReleaseIdentifier)
  IN VersionInfo(splitSemVersion(version, "major", preReleaseIdentifier),
                 splitSemVersion(version, "minor", preReleaseIdentifier),
                 splitSemVersion(version, "patch", preReleaseIdentifier),
                 splitSemVersion(version, "prerelease", preReleaseIdentifier),
                 inputPoint,
                 resolvedOfTemplatable(inputPoint, computed))

\* Variant: a draft version always replaces the computed one.
draftFloor_Ceiling(templatable, inputVersion, draftVersion) ==
  IF ~IsSome(inputVersion) /\ IsSome(draftVersion) /\ IsSome(templatable.RESOLVED_VERSION)
  THEN [templatable EXCEPT !.RESOLVED_VERSION = draftVersion]
  ELSE templatable

\* The draft floor at the end of getVersionInfo.
draftFloor(templatable, inputVersion, draftVersion) ==
  IF ~IsSome(inputVersion) /\ IsSome(draftVersion) /\ IsSome(templatable.RESOLVED_VERSION)
     /\ SemverGt(Get(draftVersion), Get(templatable.RESOLVED_VERSION))
  THEN [templatable EXCEPT !.RESOLVED_VERSION = draftVersion]
  ELSE templatable

\* The module-level table after the no-version branch of getVersionInfo.
defaultTableAfter(table, isPreVersionKeyIncrement) ==
  IF isPreVersionKeyIncrement
  THEN [table EXCEPT !.RESOLVED_VERSION = table.NEXT_PRERELEASE_VERSION]
  ELSE table

\* Variant: the prerelease override compared with the computed version.
inputPrereleaseResult_Floor(version, inputVersion, preReleaseIdentifier) ==
  LET t == getTemplatableVersion(version, None, "", preReleaseIdentifier)
  IN [t EXCEPT !.INPUT_VERSION = inputVersion,
               !.RESOLVED_VERSION =
                  resolvedOfTemplatable_Floor(inputVersion, t.RESOLVED_VERSION)]

\* Variant: the prerelease draft treated as a floor like any other draft.
draftPrereleaseResult_Floor(version, draftVersion, preReleaseIdentifier) ==
  LET t == getTemplatableVersion(version, None, "", preReleaseIdentifier)
  IN [t EXCEPT !.INPUT_VERSION = draftVersion,
               !.RESOLVED_VERSION =
                  resolvedOfTemplatable_Floor(draftVersion, t.RESOLVED_VERSION)]

\* The branch of getVersionInfo for an override that carries a prerelease tag.
inputPrereleaseResult(version, inputVersion, preReleaseIdentifier) ==
  [getTemplatableVersion(version, inputVersion, "", preReleaseIdentifier)
     EXCEPT !.INPUT_VERSION = inputVersion, !.RESOLVED_VERSION = inputVersion]

\* The branch of getVersionInfo for a draft that carries a prerelease tag and
\* no override.
draftPrereleaseResult(version, draftVersion, preReleaseIdentifier) ==
  [getTemplatableVersion(version, draftVersion, "", preReleaseIdentifier)
     EXCEPT !.RESOLVED_VERSION = draftVersion]

\* getVersionInfo: ret is what it returns, table the module-level
\* defaultVersionInfo after the call.
getVersionInfo(table, release, rawInputVersion, versionKeyIncrement, preReleaseIdentifier, rawDraftVersion) ==
  LET version == coerceVersionRelease(release)
      inputVersion == coerceVersionString(rawInputVersion)
      draftVersion == coerceVersionString(rawDraftVersion)
      isPreVersionKeyIncrement == startsWithPre(versionKeyIncrement)
  IN IF ~IsSome(version) /\ ~IsSome(inputVersion) /\ ~IsSome(draftVersion)
     THEN LET t == defaultTableAfter(table, isPreVersionKeyIncrement)
          IN [ret |-> t, table |-> t]
     ELSE IF IsSome(inputVersion) /\ hasPreReleaseTag(inputVersion)
     THEN [ret |-> inputPrereleaseResult(version, inputVersion, preReleaseIdentifier),
           table |-> table]
     ELSE IF ~IsSome(inputVersion) /\ IsSome(draftVersion) /\ hasPreReleaseTag(draftVersion)
     THEN [ret |-> draftPrereleaseResult(version, draftVersion, preReleaseIdentifier),
           table |-> table]
     ELSE LET shouldIncrementAsPrerelease ==
                isPreVersionKeyIncrement /\ IsSome(version)
                /\ Len(Get(version).prerelease) > 0
              inc == IF shouldIncrementAsPrerelease THEN "prerelease"
                     ELSE versionKeyIncrement
          IN [ret |-> draftFloor(getTemplatableVersion(version, inputVersion, inc,
                                                       preReleaseIdentifier),
                                 inputVersion, draftVersion),
              table |-> table]


(***************************************************************************)
(* The change collection and the bump policy (semantic-commits.js).  A     *)
(* change item is kept by its type and its breaking flag.                  *)
(***************************************************************************)
Item(type, breaking) == [type |-> type, breaking |-> breaking]

hasBreakingChanges(items) == \E i \in 1..Len(items) : items[i].breaking
hasFeatures(items) == \E i \in 1..Len(items) : items[i].type = "feat"

\* A policy field left out of the config object takes its default.
Policy(pre, noAuto, major) ==
  [preOneZeroMinorForBreaking |-> pre, noAutoMajor |-> noAuto, currentMajor |-> major]
OrDefault(field, default) == IF IsSome(field) THEN Get(field) ELSE default

\* Variant: the no-auto-major guard is not consulted.
resolveVersionBump_NoGuard(items, policy) ==
  LET preOneZeroMinorForBreaking == OrDefault(policy.preOneZeroMinorForBreaking, TRUE)
      currentMajor == OrDefault(policy.currentMajor, 0)
  IN IF hasBreakingChanges(items)
     THEN IF currentMajor = 0 /\ preOneZeroMinorForBreaking THEN "minor" ELSE "major"
     ELSE IF hasFeatures(items) THEN "minor" ELSE "patch"

\* Variant: the pre-1.0 guard is not consulted.
resolveVersionBump_NoPreOneZero(items, policy) ==
  LET noAutoMajor == OrDefault(policy.noAutoMajor, TRUE)
  IN IF hasBreakingChanges(items)
     THEN IF noAutoMajor THEN "minor" ELSE "major"
     ELSE IF hasFeatures(items) THEN "minor" ELSE "patch"

\* ReleaseChangeLineItems.resolveVersionBump(config)
resolveVersionBump(items, policy) ==
  LET preOneZeroMinorForBreaking == OrDefault(policy.preOneZeroMinorForBreaking, TRUE)
      noAutoMajor == OrDefault(policy.noAutoMajor, TRUE)
      currentMajor == OrDefault(policy.currentMajor, 0)
  IN IF hasBreakingChanges(items)
     THEN IF currentMajor = 0 /\ preOneZeroMinorForBreaking THEN "minor"
          ELSE IF noAutoMajor THEN "minor"
          ELSE "major"
     ELSE IF hasFeatures(items) THEN "minor"
     ELSE "patch"

\* Variant: a guard left out of the config object is off.
resolveVersionBumpFromChangeItems_DefaultsOff(items, policy) ==
  resolveVersionBump(items, Policy(Some(OrDefault(policy.preOneZeroMinorForBreaking, FALSE)),
                                   Some(OrDefault(policy.noAutoMajor, FALSE)),
                                   policy.currentMajor))

\* Variant: a breaking change always asks for a major bump.
resolveVersionBumpFromChangeItems_AlwaysMajor(items, policy) ==
  IF \E i \in 1..Len(items) : items[i].breaking THEN "major"
  ELSE IF \E i \in 1..Len(items) : items[i].type = "feat" THEN "minor"
  ELSE "patch"

\* resolveVersionBumpFromChangeItems(changeItems, config), the function the
\* assembler reaches through resolveVersionBumpFromCommits.
resolveVersionBumpFromChangeItems(items, policy) ==
  LET preOneZeroMinorForBreaking == OrDefault(policy.preOneZeroMinorForBreaking, TRUE)
      noAutoMajor == OrDefault(policy.noAutoMajor, TRUE)
      currentMajor == OrDefault(policy.currentMajor, 0)
      hasBreaking == \E i \in 1..Len(items) : items[i].breaking
      hasFeature == \E i \in 1..Len(items) : items[i].type = "feat"
  IN IF hasBreaking
     THEN IF currentMajor = 0 /\ preOneZeroMinorForBreaking THEN "minor"
          ELSE IF noAutoMajor THEN "minor"
          ELSE "major"
     ELSE IF hasFeature THEN "minor"
     ELSE "patch"

(***************************************************************************)
(* The release-info assembler and the release lookup (releases.js).        *)
(* A release is kept by its id (ids grow with creation time), its tag, and *)
(* its draft and prerelease flags; its name is its tag.                    *)
(***************************************************************************)
Release(id, tag, draft, prerelease) ==
  [id |-> id, tag_name |-> tag, draft |-> draft, prerelease |-> prerelease]

\* compareVersions accepts a tag that holds a version and raises on any other.
validTag(tag) == tag.kind # "garbage"

\* Variant: the releases are compared by creation time only.
compareReleases_ByDate(r1, r2) == Cmp(r1.id, r2.id)

\* The comparator of sortReleases: by version, and by creation time when
\* compareVersions raises.
compareReleases(r1, r2) ==
  IF validTag(r1.tag_name) /\ validTag(r2.tag_name)
  THEN SemverCompare(r1.tag_name.v, r2.tag_name.v)
  ELSE Cmp(r1.id, r2.id)

\* Array.prototype.sort on a short array: insertion sort, stable.
RECURSIVE insertSorted(_, _, _)
insertSorted(sorted, r, i) ==
  IF i = 0 THEN <<r>> \o sorted
  ELSE IF compareReleases(sorted[i], r) <= 0
       THEN SubSeq(sorted, 1, i) \o <<r>> \o SubSeq(sorted, i + 1, Len(sorted))
       ELSE insertSorted(sorted, r, i - 1)

RECURSIVE sortReleases(_)
sortReleases(rs) ==
  IF Len(rs) = 0 THEN <<>>
  ELSE LET front == sortReleases(SubSeq(rs, 1, Len(rs) - 1))
       IN insertSorted(front, rs[Len(rs)], Len(front))

\* r.tag_name.startsWith(tagPrefix): a "foreign" tag is one that does not
\* start with the configured prefix.
startsWithTagPrefix(r) == r.tag_name.kind # "foreign"

isSelectable(r, includePreReleases) == ~r.draft /\ (~r.prerelease \/ includePreReleases)


\* The predicate findReleases uses to find the draft release.
isDraftMatch(r, includePreReleases) == r.draft /\ r.prerelease = includePreReleases

\* findReleases: the first matching draft in list order and the greatest
\* selectable release.
findReleases(rs, includePreReleases) ==
  LET selectable(r) == isSelectable(r, includePreReleases)
      matches(r) == isDraftMatch(r, includePreReleases)
      filteredReleases == SelectSeq(rs, startsWithTagPrefix)
      sorted == sortReleases(SelectSeq(filteredReleases, selectable))
      drafts == SelectSeq(filteredReleases, matches)
  IN [draftRelease |-> IF Len(drafts) > 0 THEN Some(drafts[1]) ELSE None,
      lastRelease |-> IF Len(sorted) > 0 THEN Some(sorted[Len(sorted)]) ELSE None]

\* The text of a tag: a prefix followed by the rest, which holds the version.
TagString(prefix, rest) == [prefix |-> prefix, rest |-> rest]
\* The first run of digits in a prefix, None when it has no digit.
prefixInteger(prefix) == IF prefix = "app2-v" THEN Some(2) ELSE None

\* tag_name.match(/v?(\d+)/): the first run of digits anywhere in the tag.
matchLeadingInteger(tag) ==
  IF IsSome(prefixInteger(tag.prefix)) THEN prefixInteger(tag.prefix)
  ELSE IF validTag(tag.rest) THEN Some(tag.rest.v.major)
  ELSE None

\* resolveVersionKeyIncrement: currentMajor, 0 unless the tag matches.
currentMajorOfTag(lastTag) ==
  IF IsSome(lastTag) /\ IsSome(matchLeadingInteger(Get(lastTag)))
  THEN Get(matchLeadingInteger(Get(lastTag)))
  ELSE 0

\* coerceVersion(release, tagPrefix) on the tag: stripTag, then toSemver.  A
\* prefix that is not stripped is read by semver: a leading v is skipped,
\* and coerce takes the first run of digits it meets.
coerceVersionTag(lastTag, tagPrefix) ==
  IF ~IsSome(lastTag) THEN None
  ELSE LET tag == Get(lastTag)
           stripped == tagPrefix # "" /\ tag.prefix = tagPrefix
       IN IF stripped \/ tag.prefix \in {"", "v"} THEN toSemver(tag.rest)
          ELSE IF IsSome(prefixInteger(tag.prefix))
          THEN Some(SemVer(Get(prefixInteger(tag.prefix)), 0, 0, <<>>))
          ELSE SemverCoerce(tag.rest)

\* The leading integer resolveVersionKeyIncrement reads from the tag
\* (/v?(\d+)/), 0 when the tag holds no digits; the tags of the releases
\* kept here have the prefix v.
currentMajorOf(lastRelease) ==
  IF IsSome(lastRelease)
  THEN currentMajorOfTag(Some(TagString("v", Get(lastRelease).tag_name)))
  ELSE 0

\* resolveVersionKeyIncrement(commits, config, isPreRelease, lastRelease)
resolveVersionKeyIncrement(items, cfg, lastRelease) ==
  LET versionKeyIncrement ==
        resolveVersionBumpFromChangeItems(
          items,
          Policy(Some(cfg.preOneZeroMinorForBreaking), Some(cfg.noAutoMajor),
                 Some(currentMajorOf(lastRelease))))
      shouldIncrementAsPrerelease == cfg.prerelease /\ cfg.preReleaseIdentifier # ""
  IN IF ~shouldIncrementAsPrerelease THEN versionKeyIncrement
     ELSE CASE versionKeyIncrement = "patch" -> "prepatch"
            [] versionKeyIncrement = "minor" -> "preminor"
            [] versionKeyIncrement = "major" -> "premajor"

\* The release object as getVersionInfo reads it: tag_name, then name.
asVersionSource(release) ==
  IF IsSome(release)
  THEN Some(ReleaseObject(Get(release).tag_name, Get(release).tag_name))
  ELSE None

\* template(config['tag-template'], versionInfo) for the default templates
\* v$RESOLVED_VERSION: the tag and the name carry the resolved version.
renderVersionTemplate(versionInfo) == Raw("semver", Get(versionInfo.RESOLVED_VERSION))

\* generateReleaseInfo: info is the release info it returns, table the
\* module-level defaultVersionInfo after the call.  The body is kept as the
\* change items it lists and the version it names.
generateReleaseInfo(table, items, cfg, lastRelease, version, shouldDraft) ==
  LET versionKeyIncrement == resolveVersionKeyIncrement(items, cfg, lastRelease)
      r == getVersionInfo(table, asVersionSource(lastRelease), version,
                          versionKeyIncrement, cfg.preReleaseIdentifier, None)
  IN [info |-> [name |-> renderVersionTemplate(r.ret),
                tag |-> renderVersionTemplate(r.ret),
                body |-> [changes |-> items, version |-> r.ret.RESOLVED_VERSION],
                prerelease |-> cfg.prerelease,
                draft |-> shouldDraft,
                resolvedVersion |-> Get(r.ret.RESOLVED_VERSION),
                versionKeyIncrement |-> versionKeyIncrement],
      table |-> r.table]

\* createRelease: the hosting API lists the newest release first.
createRelease(rs, id, info) ==
  <<Release(id, info.tag, info.draft, info.prerelease)>> \o rs

\* updateRelease: the draft found is rewritten in place.
updateRelease(rs, draftRelease, info) ==
  [i \in 1..Len(rs) |->
     IF rs[i].id = draftRelease.id
     THEN Release(rs[i].id, info.tag, info.draft, info.prerelease)
     ELSE rs[i]]

(***************************************************************************)
(* Inputs the model draws.                                                 *)
(***************************************************************************)
PreTags == {<<>>, <<Str("rc"), Num(1)>>}
Versions ==
  {SemVer(ma, mi, pa, pre) : ma \in 0..MaxVer, mi \in 0..MaxVer, pa \in 0..MaxVer,
                             pre \in PreTags}
Raws ==
  {Garbage} \cup {Raw("semver", v) : v \in Versions}
  \cup {Raw("loose", v) : v \in {w \in Versions : w.minor = 0 /\ w.patch = 0}}
StringInputs == {None} \cup {Some(r) : r \in Raws}
ReleaseInputs ==
  {None} \cup {Some(ReleaseObject(r, r)) : r \in Raws}
  \cup {Some(ReleaseObject(Garbage, Raw("semver", SemVer(1, 0, 0, <<>>))))}
Increments == {"", "patch", "minor", "major", "prepatch", "preminor", "premajor"}
Identifiers == {"", "rc"}

\* With an override that yields a version the draft is read only for its
\* presence: one draft of each kind is drawn then, every draft otherwise.
DraftSamples ==
  {None, Some(Garbage), Some(Raw("semver", SemVer(1, 0, 0, <<>>))),
   Some(Raw("semver", SemVer(1, 0, 0, <<Str("rc"), Num(1)>>)))}
DraftInputsFor(inputVersion) ==
  IF IsSome(coerceVersionString(inputVersion)) THEN DraftSamples ELSE StringInputs

NoCall == None

(***************************************************************************)
(* The version resolver called directly, any number of times in one        *)
(* process.                                                                *)
(***************************************************************************)
GetVersionInfoCall ==
  /\ viCall = NoCall
  /\ \E release \in ReleaseInputs, inputVersion \in StringInputs,
        inc \in Increments, id \in Identifiers :
     \E draftVersion \in DraftInputsFor(inputVersion) :
       LET r == getVersionInfo(defaultVersionInfo, release, inputVersion, inc, id,
                               draftVersion)
       IN /\ viCall' = Some([release |-> release, inputVersion |-> inputVersion,
                             draftVersion |-> draftVersion,
                             versionKeyIncrement |-> inc,
                             preReleaseIdentifier |-> id, ret |-> r.ret])
          /\ defaultVersionInfo' = r.table
  /\ UNCHANGED <<bumpCall, releases, nextId, config, run, genFirst, genLast, parseCall, renderCall, assets, libCall>>

\* The caller is done with the result.
GetVersionInfoReturn ==
  /\ viCall # NoCall
  /\ viCall' = NoCall
  /\ UNCHANGED <<defaultVersionInfo, bumpCall, releases, nextId, config, run,
                 genFirst, genLast, parseCall, renderCall, assets, libCall>>

(***************************************************************************)
(* The bump policy called directly on a collection.                        *)
(***************************************************************************)
ItemKinds == {Item(t, b) : t \in {"feat", "fix", "chore"}, b \in BOOLEAN}
RECURSIVE SeqsUpTo(_, _)
SeqsUpTo(S, n) ==
  IF n = 0 THEN {<<>>}
  ELSE SeqsUpTo(S, n - 1)
       \cup {Append(q, x) : q \in {r \in SeqsUpTo(S, n - 1) : Len(r) = n - 1}, x \in S}
Collections == SeqsUpTo(ItemKinds, MaxItems)
OptionalBooleans == {None, Some(TRUE), Some(FALSE)}
OptionalMajors == {None} \cup {Some(m) : m \in 0..(MaxVer + 1)}

ResolveVersionBumpCall ==
  /\ bumpCall = NoCall
  /\ \E items \in Collections, pre \in OptionalBooleans, noAuto \in OptionalBooleans,
        major \in OptionalMajors :
       bumpCall' = Some([items |-> items, policy |-> Policy(pre, noAuto, major),
                         ret |-> resolveVersionBump(items, Policy(pre, noAuto, major)),
                         retFromChangeItems |->
                           resolveVersionBumpFromChangeItems(items,
                                                             Policy(pre, noAuto, major))])
  /\ UNCHANGED <<defaultVersionInfo, viCall, releases, nextId, config, run,
                 genFirst, genLast, parseCall, renderCall, assets, libCall>>

ResolveVersionBumpReturn ==
  /\ bumpCall # NoCall
  /\ bumpCall' = NoCall
  /\ UNCHANGED <<defaultVersionInfo, viCall, releases, nextId, config, run,
                 genFirst, genLast, parseCall, renderCall, assets, libCall>>

InitVersions ==
  /\ defaultVersionInfo = InitialDefaultVersionInfo
  /\ viCall = NoCall
  /\ bumpCall = None
  /\ releases = <<>>
  /\ nextId = 1
  /\ config = None
  /\ run = None
  /\ genFirst = None
  /\ genLast = None
  /\ parseCall = None
  /\ renderCall = None
  /\ assets = {}
  /\ libCall = None

NextVersions == GetVersionInfoCall \/ GetVersionInfoReturn

SpecVersions == InitVersions /\ [][NextVersions]_vars

NextBump == ResolveVersionBumpCall \/ ResolveVersionBumpReturn

SpecBump == InitVersions /\ [][NextBump]_vars


(***************************************************************************)
(* The drafter handler (index.js) in API mode, with the people who edit    *)
(* and publish the draft between runs.  Tags carry the configured prefix;  *)
(* tag, name and version templates are the defaults.                       *)
(***************************************************************************)
Config(include, prerelease, identifier, preOneZero, noAuto) ==
  [includePreReleases |-> include, prerelease |-> prerelease,
   preReleaseIdentifier |-> identifier,
   preOneZeroMinorForBreaking |-> preOneZero, noAutoMajor |-> noAuto]
Configs ==
  {Config(i, p, id, g, g) : i \in BOOLEAN, p \in BOOLEAN, id \in Identifiers,
                            g \in BOOLEAN}

\* Boolean(includePreReleases || preReleaseIdentifier)
shouldIncludePreReleases(cfg) == cfg.includePreReleases \/ cfg.preReleaseIdentifier # ""

\* The commits since the last release, as the change items parsed from them.
DrafterCommits ==
  {<<Item("fix", FALSE)>>, <<Item("chore", FALSE), Item("feat", FALSE)>>,
   <<Item("fix", TRUE)>>}
\* The version input of a run.
VersionInputs == {None, Some(Raw("semver", SemVer(1, 1, 0, <<>>)))}
\* The tags a person gives a draft.
DraftTags ==
  {Raw("semver", SemVer(0, 0, 1, <<>>)), Raw("semver", SemVer(2, 0, 0, <<>>)),
   Raw("semver", SemVer(2, 0, 0, <<Str("rc"), Num(1)>>))}

NumDrafts(rs) == Cardinality({i \in 1..Len(rs) : rs[i].draft})

(***************************************************************************)
(* Release assets (assets.js).  A file of the workspace and an asset of a  *)
(* release are names; a line of attach-files is a glob, known by the names *)
(* it matches.  A call of the hosting API may fail: failAt is the number   *)
(* of the asset call that raises, 0 when none does.                        *)
(***************************************************************************)
MaxFail == 3
\* The names in the order [...allFiles].sort() gives them.
FileNames == <<"a.tar.gz", "b.whl">>
sorted(S) == SelectSeq(FileNames, LAMBDA n : n \in S)
\* glob(absolutePattern, { nodir: true, absolute: true })
glob(pattern, files) ==
  {f \in files : pattern = "dist/*" \/ pattern = f}

\* resolveFiles(attachFilesInput, workspacePath): None is an input that is
\* not set or empty, otherwise the trimmed non-empty lines.
resolveFiles(attachFilesInput, files) ==
  IF ~IsSome(attachFilesInput) \/ Len(Get(attachFilesInput)) = 0 THEN <<>>
  ELSE LET patterns == Get(attachFilesInput)
       IN sorted(UNION {glob(patterns[i], files) : i \in 1..Len(patterns)})

\* listReleaseAssets({ context, releaseId })
listReleaseAssets(as, releaseId) == sorted({a.name : a \in {b \in as : b.release = releaseId}})

\* The calls deleteAllReleaseAssets and the upload loop issue.
deleteCalls(existing) == [i \in 1..Len(existing) |-> [op |-> "delete", name |-> existing[i]]]
uploadCalls(filesToAttach) ==
  [i \in 1..Len(filesToAttach) |-> [op |-> "upload", name |-> filesToAttach[i]]]

\* Variant: the uploads are issued before the deletions.
plannedCalls_UploadFirst(existing, filesToAttach) ==
  uploadCalls(filesToAttach) \o deleteCalls(existing)

\* manageReleaseAssets: await deleteAllReleaseAssets, then one
\* uploadReleaseAsset per file of filesToAttach.
plannedCalls(existing, filesToAttach) ==
  deleteCalls(existing) \o uploadCalls(filesToAttach)

\* Variant: the assets are deleted before the patterns are looked at.
callsWhenNoFileMatches_DeleteFirst(existing) == deleteCalls(existing)

\* manageReleaseAssets: the error for no matching file is thrown before
\* deleteAllReleaseAssets is called.
callsWhenNoFileMatches(existing) == <<>>

\* The assets after the first n calls have taken effect.
RECURSIVE applyCalls(_, _, _, _)
applyCalls(as, releaseId, calls, n) ==
  IF n = 0 THEN as
  ELSE LET before == applyCalls(as, releaseId, calls, n - 1)
           asset == [release |-> releaseId, name |-> calls[n].name]
       IN IF calls[n].op = "delete" THEN before \ {asset} ELSE before \cup {asset}

\* manageReleaseAssets({ context, releaseId, attachFilesInput }): the calls
\* issued, whether it returned (ok) or threw, and the assets it leaves.
manageReleaseAssets(as, releaseId, attachFilesInput, files, failAt) ==
  LET filesToAttach == resolveFiles(attachFilesInput, files)
      existing == listReleaseAssets(as, releaseId)
      planned == IF Len(filesToAttach) = 0 THEN callsWhenNoFileMatches(existing)
                 ELSE plannedCalls(existing, filesToAttach)
      fails == failAt > 0 /\ failAt <= Len(planned)
      issued == IF fails THEN SubSeq(planned, 1, failAt) ELSE planned
      done == IF fails THEN failAt - 1 ELSE Len(planned)
  IN [calls |-> issued,
      ok |-> Len(filesToAttach) > 0 /\ ~fails,
      assets |-> applyCalls(as, releaseId, planned, done)]

\* Variant: dry-run is not looked at.
drafterOp_IgnoreDryRun(dryRun, draftRelease) ==
  IF ~IsSome(draftRelease) THEN "create" ELSE "update"

\* drafter: what the run does with the release.
drafterOp(dryRun, draftRelease) ==
  IF dryRun THEN "none"
  ELSE IF ~IsSome(draftRelease) THEN "create" ELSE "update"

\* The attach-files inputs and the files of the workspace.
AttachInputs ==
  {None, Some(<<"dist/*">>), Some(<<"a.tar.gz", "dist/*">>), Some(<<"b.whl">>)}
Workspaces == SUBSET {FileNames[i] : i \in 1..Len(FileNames)}

\* One run of the drafter handler, from findReleases to createRelease or
\* updateRelease and manageReleaseAssets.
DrafterRun(items, version, dryRun, publish, attachFiles, files, failAt) ==
  LET cfg == Get(config)
      found == findReleases(releases, shouldIncludePreReleases(cfg))
      g == generateReleaseInfo(defaultVersionInfo, items, cfg, found.lastRelease,
                               version, ~publish)
      op == drafterOp(dryRun, found.draftRelease)
      releaseId == IF op = "create" THEN nextId
                   ELSE IF op = "update" THEN Get(found.draftRelease).id ELSE 0
      managed == op # "none" /\ IsSome(attachFiles)
      m == IF managed
           THEN manageReleaseAssets(assets, releaseId, attachFiles, files, failAt)
           ELSE [calls |-> <<>>, assets |-> assets,
                 ok |-> ~(dryRun /\ IsSome(attachFiles)
                           /\ Len(resolveFiles(attachFiles, files)) = 0)]
  IN /\ op = "create" => Len(releases) < MaxReleases
     /\ defaultVersionInfo' = g.table
     /\ releases' = CASE op = "none" -> releases
                      [] op = "create" -> createRelease(releases, nextId, g.info)
                      [] op = "update" ->
                           updateRelease(releases, Get(found.draftRelease), g.info)
     /\ nextId' = IF op = "create" THEN nextId + 1 ELSE nextId
     /\ assets' = m.assets
     /\ run' = Some([version |-> version, dryRun |-> dryRun,
                     shouldDraft |-> ~publish,
                     draftRelease |-> found.draftRelease,
                     lastRelease |-> found.lastRelease,
                     versionKeyIncrement |-> g.info.versionKeyIncrement,
                     resolvedVersion |-> g.info.resolvedVersion,
                     op |-> op,
                     attachFiles |-> attachFiles,
                     filesToAttach |-> resolveFiles(attachFiles, files),
                     releaseId |-> releaseId,
                     calls |-> m.calls,
                     failed |-> ~m.ok])

\* A run with the attach-files input not set.
Drafter ==
  /\ run = None
  /\ IsSome(config)
  /\ \E items \in DrafterCommits, version \in VersionInputs, dryRun \in BOOLEAN,
        publish \in BOOLEAN :
       DrafterRun(items, version, dryRun, publish, None, {}, 0)
  /\ UNCHANGED <<viCall, bumpCall, config, genFirst, genLast, parseCall, renderCall, libCall>>

\* A run with any attach-files input, over any workspace.
DrafterAttach ==
  /\ run = None
  /\ IsSome(config)
  /\ \E dryRun \in BOOLEAN, publish \in BOOLEAN, attachFiles \in AttachInputs,
        files \in Workspaces, failAt \in 0..MaxFail :
       DrafterRun(<<Item("fix", FALSE)>>, None, dryRun, publish, attachFiles, files, failAt)
  /\ UNCHANGED <<viCall, bumpCall, config, genFirst, genLast, parseCall, renderCall, libCall>>

\* The handler has returned; the next event is awaited.
DrafterReturn ==
  /\ run # None
  /\ run' = None
  /\ UNCHANGED <<defaultVersionInfo, viCall, bumpCall, releases, nextId, config,
                 genFirst, genLast, parseCall, renderCall, assets, libCall>>

\* A person sets the version of a draft release by hand.
HumanEditsDraft ==
  /\ run = None
  /\ \E i \in 1..Len(releases), tag \in DraftTags :
       /\ releases[i].draft
       /\ releases[i].tag_name # tag
       /\ releases' = [releases EXCEPT ![i].tag_name = tag]
  /\ UNCHANGED <<defaultVersionInfo, viCall, bumpCall, nextId, config, run,
                 genFirst, genLast, parseCall, renderCall, assets, libCall>>

\* A person publishes a draft release.
HumanPublishes ==
  /\ run = None
  /\ \E i \in 1..Len(releases) :
       /\ releases[i].draft
       /\ releases' = [releases EXCEPT ![i].draft = FALSE]
  /\ UNCHANGED <<defaultVersionInfo, viCall, bumpCall, nextId, config, run,
                 genFirst, genLast, parseCall, renderCall, assets, libCall>>

\* The process that serves the events is started afresh (every run of the
\* action is; a deployed app is from time to time).
ProcessRestart ==
  /\ run = None
  /\ defaultVersionInfo # InitialDefaultVersionInfo
  /\ defaultVersionInfo' = InitialDefaultVersionInfo
  /\ UNCHANGED <<viCall, bumpCall, releases, nextId, config, run, genFirst, genLast, parseCall, renderCall, assets, libCall>>

InitDrafter ==
  /\ defaultVersionInfo = InitialDefaultVersionInfo
  /\ viCall = NoCall
  /\ bumpCall = NoCall
  /\ releases \in {<<>>, <<Release(1, Raw("semver", SemVer(0, 1, 0, <<>>)), FALSE, FALSE)>>}
  /\ nextId = Len(releases) + 1
  /\ config \in {Some(c) : c \in Configs}
  /\ run = None
  /\ genFirst = None
  /\ genLast = None
  /\ parseCall = None
  /\ renderCall = None
  /\ assets = {}
  /\ libCall = None

NextDrafter ==
  Drafter \/ DrafterReturn \/ HumanEditsDraft \/ HumanPublishes \/ ProcessRestart

SpecDrafter == InitDrafter /\ [][NextDrafter]_vars

\* The drafter with attach-files, in a repository with no release yet.
InitAssets ==
  /\ defaultVersionInfo = InitialDefaultVersionInfo
  /\ viCall = NoCall
  /\ bumpCall = NoCall
  /\ releases = <<>>
  /\ nextId = 1
  /\ config = Some(Config(FALSE, FALSE, "", TRUE, TRUE))
  /\ run = None
  /\ genFirst = None
  /\ genLast = None
  /\ parseCall = None
  /\ renderCall = None
  /\ assets = {}
  /\ libCall = None

NextAssets == DrafterAttach \/ DrafterReturn

SpecAssets == InitAssets /\ [][NextAssets]_vars

(***************************************************************************)
(* findReleases called on any list of releases.  The id of a release       *)
(* stands for its creation time.                                           *)
(***************************************************************************)
FindTags ==
  {Raw("semver", SemVer(0, 1, 0, <<>>)), Raw("semver", SemVer(1, 0, 0, <<>>)),
   Raw("semver", SemVer(1, 0, 0, <<Str("rc"), Num(1)>>)), Garbage,
   Raw("foreign", SemVer(1, 1, 0, <<>>))}
FindReleaseKinds ==
  {[tag_name |-> t, draft |-> FALSE, prerelease |-> Len(t.v.prerelease) > 0] : t \in FindTags}
  \cup {[tag_name |-> Raw("semver", SemVer(1, 1, 0, <<>>)), draft |-> TRUE,
         prerelease |-> FALSE]}
\* The lists the API can return: releases with distinct ids and tags, built
\* one release at a time.
FindReleaseObjects ==
  {Release(id, k.tag_name, k.draft, k.prerelease) : id \in 1..MaxFind, k \in FindReleaseKinds}
RECURSIVE ReleaseListsOfLen(_)
ReleaseListsOfLen(n) ==
  IF n = 0 THEN {<<>>}
  ELSE UNION {{Append(rs, r) :
                 r \in {q \in FindReleaseObjects :
                          \A i \in 1..Len(rs) :
                            rs[i].id # q.id /\ rs[i].tag_name # q.tag_name}} :
              rs \in ReleaseListsOfLen(n - 1)}
ReleaseLists == UNION {ReleaseListsOfLen(n) : n \in 0..MaxFind}

FindReleasesCall ==
  /\ libCall = NoCall
  /\ \E rs \in ReleaseLists, includePreReleases \in BOOLEAN :
       libCall' = Some([fn |-> "findReleases", releases |-> rs,
                        includePreReleases |-> includePreReleases,
                        ret |-> findReleases(rs, includePreReleases)])
  /\ UNCHANGED <<defaultVersionInfo, viCall, bumpCall, releases, nextId, config, run,
                 genFirst, genLast, parseCall, renderCall, assets>>

LibReturn ==
  /\ libCall # NoCall
  /\ libCall' = NoCall
  /\ UNCHANGED <<defaultVersionInfo, viCall, bumpCall, releases, nextId, config, run,
                 genFirst, genLast, parseCall, renderCall, assets>>

NextFind == FindReleasesCall \/ LibReturn

SpecFind == InitVersions /\ [][NextFind]_vars

(***************************************************************************)
(* The prior release as generateReleaseInfo reads it twice: the major for  *)
(* the bump policy and the prior version for getVersionInfo.               *)
(***************************************************************************)
TagPrefixes == {"", "v", "release-", "app2-v"}
LastTags == {None} \cup {Some(TagString(p, r)) : p \in TagPrefixes, r \in Raws}
\* findReleases keeps the releases whose tag starts with a configured prefix.
TagPrefixesFor(lastTag) ==
  IF IsSome(lastTag) THEN {"", Get(lastTag).prefix} ELSE TagPrefixes

ReadLastReleaseCall ==
  /\ libCall = NoCall
  /\ \E lastTag \in LastTags :
     \E tagPrefix \in TagPrefixesFor(lastTag) :
       libCall' = Some([fn |-> "generateReleaseInfo", lastTag |-> lastTag,
                        tagPrefix |-> tagPrefix,
                        currentMajor |-> currentMajorOfTag(lastTag),
                        version |-> coerceVersionTag(lastTag, tagPrefix)])
  /\ UNCHANGED <<defaultVersionInfo, viCall, bumpCall, releases, nextId, config, run,
                 genFirst, genLast, parseCall, renderCall, assets>>

NextMajor == ReadLastReleaseCall \/ LibReturn

SpecMajor == InitVersions /\ [][NextMajor]_vars

(***************************************************************************)
(* contributorsSentence.  An entry of the sentence is a prefix ("@" for a  *)
(* handle, "[" for a bot link, "" for a bare name) and the name or login   *)
(* it shows; the sentence is its entries and the separators between them.  *)
(***************************************************************************)
Entry(prefix, text) == [k |-> "entry", prefix |-> prefix, text |-> text]
Separator(text) == [k |-> "sep", text |-> text]
NoContributorsTemplate == [k |-> "template"]
CommitAuthor(name, user) == [name |-> name, user |-> user]
PullRequestAuthor(login, typename) == [login |-> login, typename |-> typename]

\* The entry a commit adds: @login when the author has a user that is not
\* excluded, the author's name when the author has no user.
commitEntries(commit, excludeContributors) ==
  IF IsSome(commit.user)
  THEN IF Get(commit.user) \notin excludeContributors
       THEN {Entry("@", Get(commit.user))} ELSE {}
  ELSE {Entry("", commit.name)}

\* The entry a pull request adds.
pullRequestEntries(author, excludeContributors) ==
  IF IsSome(author) /\ Get(author).login \notin excludeContributors
  THEN IF Get(author).typename = "Bot"
       THEN {Entry("[", Get(author).login)}
       ELSE {Entry("@", Get(author).login)}
  ELSE {}

\* [...contributors].sort(): by code unit, "@" before the capitals, the
\* capitals before "[", "[" before the small letters.
EntryOrder ==
  <<Entry("@", "Ann"), Entry("@", "ann"), Entry("@", "bob"), Entry("@", "dependabot"),
    Entry("", "Ann"), Entry("", "Bob"), Entry("[", "dependabot")>>
sortContributors(S) == SelectSeq(EntryOrder, LAMBDA e : e \in S)

\* slice(0, -1).join(', ') + ' and ' + slice(-1)
RECURSIVE joinContributors(_, _)
joinContributors(es, i) ==
  IF i > Len(es) THEN <<>>
  ELSE IF i = Len(es) THEN <<es[i]>>
  ELSE <<es[i], Separator(IF i = Len(es) - 1 THEN " and " ELSE ", ")>>
       \o joinContributors(es, i + 1)

\* contributorsSentence({ commits, pullRequests, config }): commits are the
\* authors of the commits, pullRequests the authors of the pull requests.
contributorsSentence(commits, pullRequests, excludeContributors) ==
  LET contributors ==
        UNION {commitEntries(commits[i], excludeContributors) : i \in 1..Len(commits)}
        \cup UNION {pullRequestEntries(pullRequests[i], excludeContributors) :
                      i \in 1..Len(pullRequests)}
      sortedContributors == sortContributors(contributors)
  IN IF Len(sortedContributors) > 0 THEN joinContributors(sortedContributors, 1)
     ELSE <<NoContributorsTemplate>>

\* The authors of the remote source and of the local source: git log gives
\* a name and no user, and the mock pull request has the name as login.
CommitAuthors ==
  {CommitAuthor("Ann", None), CommitAuthor("Ann", Some("ann")),
   CommitAuthor("Bob", Some("bob"))}
PullRequestAuthors ==
  {None, Some(PullRequestAuthor("Ann", "User")), Some(PullRequestAuthor("ann", "User")),
   Some(PullRequestAuthor("bob", "User")), Some(PullRequestAuthor("dependabot", "Bot"))}
ExcludeLists == {{}, {"Ann"}, {"ann"}, {"dependabot", "bob"}}

ContributorsSentenceCall ==
  /\ libCall = NoCall
  /\ \E commits \in SeqsUpTo(CommitAuthors, MaxCommits),
        pullRequests \in SeqsUpTo(PullRequestAuthors, MaxCommits),
        excludeContributors \in ExcludeLists :
       libCall' = Some([fn |-> "contributorsSentence", commits |-> commits,
                        pullRequests |-> pullRequests,
                        excludeContributors |-> excludeContributors,
                        ret |-> contributorsSentence(commits, pullRequests,
                                                     excludeContributors)])
  /\ UNCHANGED <<defaultVersionInfo, viCall, bumpCall, releases, nextId, config, run,
                 genFirst, genLast, parseCall, renderCall, assets>>

NextContributors == ContributorsSentenceCall \/ LibReturn

SpecContributors == InitVersions /\ [][NextContributors]_vars

(***************************************************************************)
(* The release-info assembler called directly, any number of times in one  *)
(* process.  genLast is the call in progress with its result; genFirst is  *)
(* an earlier call the caller has kept to compare with.                    *)
(***************************************************************************)
AssembleConfigs ==
  {Config(FALSE, p, id, TRUE, TRUE) : p \in BOOLEAN, id \in Identifiers}
\* The prior release: none, every plain version below 1.0.0, one release
\* candidate and one version past 1.0.0.
AssemblePriors ==
  {SemVer(0, mi, pa, <<>>) : mi \in 0..MaxVer, pa \in 0..MaxVer}
  \cup {SemVer(0, 1, 0, <<Str("rc"), Num(1)>>), SemVer(1, 0, 0, <<>>)}
AssembleReleases ==
  {None} \cup {Some(Release(1, Raw("semver", v), FALSE, Len(v.prerelease) > 0)) :
                 v \in AssemblePriors}

GenerateReleaseInfoCall ==
  /\ genLast = NoCall
  /\ \E items \in DrafterCommits, cfg \in AssembleConfigs,
        lastRelease \in AssembleReleases, version \in VersionInputs :
       LET g == generateReleaseInfo(defaultVersionInfo, items, cfg, lastRelease,
                                    version, TRUE)
       IN /\ genLast' = Some([args |-> [commits |-> items, config |-> cfg,
                                        lastRelease |-> lastRelease,
                                        version |-> version],
                              info |-> g.info])
          /\ defaultVersionInfo' = g.table
  /\ UNCHANGED <<viCall, bumpCall, releases, nextId, config, run, genFirst, parseCall, renderCall, assets, libCall>>

\* The caller keeps the result to compare a later call with.
GenerateReleaseInfoKeep ==
  /\ genLast # NoCall
  /\ genFirst = NoCall
  /\ genFirst' = genLast
  /\ genLast' = NoCall
  /\ UNCHANGED <<defaultVersionInfo, viCall, bumpCall, releases, nextId, config, run, parseCall, renderCall, assets, libCall>>

\* The caller is done with the result.
GenerateReleaseInfoReturn ==
  /\ genLast # NoCall
  /\ genLast' = NoCall
  /\ UNCHANGED <<defaultVersionInfo, viCall, bumpCall, releases, nextId, config, run,
                 genFirst, parseCall, renderCall, assets, libCall>>

NextAssemble ==
  GenerateReleaseInfoCall \/ GenerateReleaseInfoKeep \/ GenerateReleaseInfoReturn

SpecAssemble == InitVersions /\ [][NextAssemble]_vars

(***************************************************************************)
(* The commit parser (semantic-commits.js).  A message is its lines, split *)
(* at newlines.  A line is kept by what SEMANTIC_COMMIT_REGEX reads of it: *)
(* a header line type(scope)!: description with its leading word, its      *)
(* scope ("none" without parentheses, "empty" for ()), its ! marker and    *)
(* its description; a prose line, which the regex cannot match; a blank    *)
(* line.  A text is "marker" when it holds the substring BREAKING CHANGE:. *)
(***************************************************************************)
Line(kind, type, scope, bang, text, indent) ==
  [kind |-> kind, type |-> type, scope |-> scope, bang |-> bang, text |-> text,
   indent |-> indent]
Blank == Line("blank", "", "none", FALSE, "", FALSE)
Prose(text) == Line("prose", "", "none", FALSE, text, FALSE)
Header(type, scope, bang, text) == Line("header", type, scope, bang, text, FALSE)

\* String.prototype.trim on a line.
trim(line) == [line EXCEPT !.indent = FALSE]

\* String.prototype.toLowerCase on the leading word.
toLowerCase(word) ==
  CASE word = "Fix" -> "fix"
    [] word = "FEAT" -> "feat"
    [] OTHER -> word

\* trimmedLine.match(SEMANTIC_COMMIT_REGEX): the scope group needs one
\* character at least, and so does the description group.
matchSemanticCommitRegex(trimmedLine) ==
  IF trimmedLine.kind = "header" /\ trimmedLine.scope # "empty" /\ trimmedLine.text # ""
  THEN Some([type |-> trimmedLine.type,
             scope |-> IF trimmedLine.scope = "none" THEN None ELSE Some(trimmedLine.scope),
             breaking |-> trimmedLine.bang,
             description |-> trimmedLine.text])
  ELSE None

\* The keys of COMMIT_TYPES.
CommitTypeKeys ==
  {"feat", "fix", "docs", "style", "refactor", "perf", "test", "build", "ci", "chore",
   "revert"}
\* The lower-case property names an object literal inherits.
ObjectPrototypeKeys == {"constructor", "__proto__"}
\* COMMIT_TYPES[lowerType] read as a condition: a property lookup, which
\* finds inherited properties too.
lookupCommitType(lowerType) == lowerType \in CommitTypeKeys \cup ObjectPrototypeKeys

\* Variant: only the first line is searched for the marker.
includesBreakingChange_FirstLine(lines) == Len(lines) > 0 /\ lines[1].text = "marker"

\* message.includes('BREAKING CHANGE:')
includesBreakingChange(lines) == \E i \in 1..Len(lines) : lines[i].text = "marker"

RECURSIVE parseLines(_, _, _)
parseLines(lines, i, hasBreakingChangeInBody) ==
  IF i > Len(lines) THEN <<>>
  ELSE LET trimmedLine == trim(lines[i])
           match == matchSemanticCommitRegex(trimmedLine)
           rest == parseLines(lines, i + 1, hasBreakingChangeInBody)
       IN IF trimmedLine.kind = "blank" THEN rest
          ELSE IF ~IsSome(match) THEN rest
          ELSE IF ~lookupCommitType(toLowerCase(Get(match).type)) THEN rest
          ELSE <<[type |-> toLowerCase(Get(match).type),
                  scope |-> Get(match).scope,
                  description |-> Get(match).description,
                  breaking |-> Get(match).breaking \/ hasBreakingChangeInBody,
                  raw |-> trimmedLine]>> \o rest

\* parseSemanticCommit(message): None is a null message, Some(<<>>) the
\* empty string.
parseSemanticCommit(message) ==
  IF ~IsSome(message) \/ Get(message) = <<>> THEN <<>>
  ELSE parseLines(Get(message), 1, includesBreakingChange(Get(message)))

\* ReleaseChangeLineItems.fromCommits(commits): the items of every commit in
\* order, each with the oid of its commit (the commit's position here).
RECURSIVE fromCommits(_, _)
fromCommits(commits, k) ==
  IF k > Len(commits) THEN <<>>
  ELSE LET parsedResults == parseSemanticCommit(commits[k])
       IN [j \in 1..Len(parsedResults) |->
             [type |-> parsedResults[j].type,
              scope |-> parsedResults[j].scope,
              description |-> parsedResults[j].description,
              breaking |-> parsedResults[j].breaking,
              raw |-> parsedResults[j].raw,
              commitSha |-> k]]
          \o fromCommits(commits, k + 1)

\* The lines drawn: headers of each leading word with and without scope and
\* marker, and one line of every other kind.
TypeWords == {"feat", "Fix", "wip", "constructor"}
HeaderLines ==
  {Header(t, sc, b, "text") : t \in TypeWords, sc \in {"none", "api"}, b \in BOOLEAN}
OtherLines ==
  {Blank, Prose("text"), Prose("marker"), Header("fix", "none", FALSE, "marker"),
   Header("feat", "empty", FALSE, "text"), Header("feat", "none", TRUE, ""),
   Line("header", "docs", "none", FALSE, "text", TRUE)}
Lines == HeaderLines \cup OtherLines
Messages == {None} \cup {Some(m) : m \in SeqsUpTo(Lines, MaxLines)}
\* The messages of the commits handed to fromCommits.
CommitMessages ==
  {Some(<<Header("feat", "none", FALSE, "text")>>),
   Some(<<Header("fix", "none", TRUE, "text")>>),
   Some(<<Header("fix", "api", FALSE, "text"), Prose("marker")>>),
   Some(<<Prose("text")>>)}

ParseSemanticCommitCall ==
  /\ parseCall = NoCall
  /\ \E message \in Messages :
       parseCall' = Some([fn |-> "parseSemanticCommit", commits |-> <<message>>,
                          ret |-> parseSemanticCommit(message)])
  /\ UNCHANGED <<defaultVersionInfo, viCall, bumpCall, releases, nextId, config, run,
                 genFirst, genLast, renderCall, assets, libCall>>

FromCommitsCall ==
  /\ parseCall = NoCall
  /\ \E commits \in SeqsUpTo(CommitMessages, MaxCommits) :
       parseCall' = Some([fn |-> "fromCommits", commits |-> commits,
                          ret |-> fromCommits(commits, 1)])
  /\ UNCHANGED <<defaultVersionInfo, viCall, bumpCall, releases, nextId, config, run,
                 genFirst, genLast, renderCall, assets, libCall>>

ParseReturn ==
  /\ parseCall # NoCall
  /\ parseCall' = NoCall
  /\ UNCHANGED <<defaultVersionInfo, viCall, bumpCall, releases, nextId, config, run,
                 genFirst, genLast, renderCall, assets, libCall>>

NextParse == ParseSemanticCommitCall \/ FromCommitsCall \/ ParseReturn

SpecParse == InitVersions /\ [][NextParse]_vars

(***************************************************************************)
(* The two commit sources and the commit identifier of a record.  A hash   *)
(* is its characters; a commit object has the fields its source sets.      *)
(***************************************************************************)
HashLen == 8
ShortLen == 7
Hashes == {[i \in 1..HashLen |-> (i + d) % 10] : d \in {0, 1}}

\* A commit object: id, oid and message (None is a field that is not set).
Commit(id, oid, message) == [id |-> id, oid |-> oid, message |-> message]

\* findCommitsFromLocalGit: the object built from one line of git log
\* (%H|%s|%an|%aI): { id, message, committedDate, author, associatedPullRequests }.
localCommit(line) == Commit(Some(line.hash), None, Some(<<line.subject>>))

\* findCommitsFromLocalGit(...).commits
findCommitsFromLocalGit(logLines) == [i \in 1..Len(logLines) |-> localCommit(logLines[i])]

\* findCommitsWithAssociatedPullRequests(...).commits: a commit node of the
\* remote API, with the hash in oid.
findCommitsWithAssociatedPullRequests(nodes) ==
  [i \in 1..Len(nodes) |-> Commit(None, Some(nodes[i].hash), nodes[i].message)]

\* fromCommits over commit objects: commitSha: commit.oid, kept by the
\* constructor as commitSha || null.
fromCommitObjects(commits) ==
  LET items == fromCommits([i \in 1..Len(commits) |-> commits[i].message], 1)
  IN [j \in 1..Len(items) |->
        [item |-> items[j], commit |-> items[j].commitSha,
         commitSha |-> commits[items[j].commitSha].oid]]

\* get shortSha(): this.commitSha ? this.commitSha.slice(0, 7) : null
shortSha(commitSha) ==
  IF IsSome(commitSha)
  THEN Some(SubSeq(Get(commitSha), 1, IF Len(Get(commitSha)) < ShortLen
                                      THEN Len(Get(commitSha)) ELSE ShortLen))
  ELSE None

\* renderItem: $SHA: item.shortSha || ''
renderSha(commitSha) ==
  IF IsSome(shortSha(commitSha)) THEN Get(shortSha(commitSha)) ELSE <<>>

\* The subjects git log prints (one line each) and the remote nodes drawn.
LogLines ==
  {[hash |-> h, subject |-> l] : h \in Hashes,
     l \in {Header("feat", "none", FALSE, "text"), Header("fix", "none", TRUE, "text"),
            Header("fix", "api", FALSE, "text"), Prose("text")}}
RemoteNodes == {[hash |-> h, message |-> m] : h \in Hashes, m \in CommitMessages}

FromLocalGitCall ==
  /\ parseCall = NoCall
  /\ \E logLines \in SeqsUpTo(LogLines, MaxCommits) :
       LET commits == findCommitsFromLocalGit(logLines)
       IN parseCall' = Some([fn |-> "findCommitsFromLocalGit",
                             hashes |-> [i \in 1..Len(logLines) |-> logLines[i].hash],
                             commits |-> commits, ret |-> fromCommitObjects(commits)])
  /\ UNCHANGED <<defaultVersionInfo, viCall, bumpCall, releases, nextId, config, run,
                 genFirst, genLast, renderCall, assets, libCall>>

FromRemoteCall ==
  /\ parseCall = NoCall
  /\ \E nodes \in SeqsUpTo(RemoteNodes, MaxCommits) :
       LET commits == findCommitsWithAssociatedPullRequests(nodes)
       IN parseCall' = Some([fn |-> "findCommitsWithAssociatedPullRequests",
                             hashes |-> [i \in 1..Len(nodes) |-> nodes[i].hash],
                             commits |-> commits, ret |-> fromCommitObjects(commits)])
  /\ UNCHANGED <<defaultVersionInfo, viCall, bumpCall, releases, nextId, config, run,
                 genFirst, genLast, renderCall, assets, libCall>>

NextSources == FromLocalGitCall \/ FromRemoteCall \/ ParseReturn

SpecSources == InitVersions /\ [][NextSources]_vars

(***************************************************************************)
(* Title escaping (escapeTitle in renderWithConfig).  A title is its       *)
(* characters; the escape set is the characters of change-title-escapes;   *)
(* the result is the title's characters with the inserted backslashes and  *)
(* comment markers.                                                        *)
(***************************************************************************)
\* Characters that cannot stand in a string here are written by name.
Backtick == "BACKTICK"
CommentMarker == "<!---->"
Backslash == "BACKSLASH"

\* Variant: @ and # are prefixed with a backslash like every other character.
escapeMatch_AllBackslash(match) == <<Backslash, match>>

\* The callback of title.replace for a one-character match.
escapeMatch(match) ==
  IF match = "@" \/ match = "#" THEN <<match, CommentMarker>> ELSE <<Backslash, match>>

\* The global replace with /[escapeChars]|`.*?`/g from position i on: at
\* each position the character class is tried first, then the backtick span
\* up to the nearest closing backtick, which is copied as it is.
RECURSIVE escapeFrom(_, _, _)
escapeFrom(title, escapeChars, i) ==
  IF i > Len(title) THEN <<>>
  ELSE IF title[i] \in escapeChars
  THEN escapeMatch(title[i]) \o escapeFrom(title, escapeChars, i + 1)
  ELSE IF title[i] = Backtick /\ \E j \in (i + 1)..Len(title) : title[j] = Backtick
  THEN LET close == CHOOSE j \in (i + 1)..Len(title) :
                      /\ title[j] = Backtick
                      /\ \A k \in (i + 1)..(j - 1) : title[k] # Backtick
       IN SubSeq(title, i, close) \o escapeFrom(title, escapeChars, close + 1)
  ELSE <<title[i]>> \o escapeFrom(title, escapeChars, i + 1)

\* escapeTitle(title)
escapeTitle(title, escapeChars) ==
  IF escapeChars = {} THEN title ELSE escapeFrom(title, escapeChars, 1)

TitleChars == {"a", "@", "#", "*", Backtick}
Titles == SeqsUpTo(TitleChars, MaxTitle)
EscapeSets == SUBSET {"@", "#", "*", Backtick}

EscapeTitleCall ==
  /\ renderCall = NoCall
  /\ \E title \in Titles, escapeChars \in EscapeSets :
       renderCall' = Some([fn |-> "escapeTitle", title |-> title,
                           escapeChars |-> escapeChars,
                           ret |-> escapeTitle(title, escapeChars)])
  /\ UNCHANGED <<defaultVersionInfo, viCall, bumpCall, releases, nextId, config, run,
                 genFirst, genLast, parseCall, assets, libCall>>

RenderReturn ==
  /\ renderCall # NoCall
  /\ renderCall' = NoCall
  /\ UNCHANGED <<defaultVersionInfo, viCall, bumpCall, releases, nextId, config, run,
                 genFirst, genLast, parseCall, assets, libCall>>

NextEscape == EscapeTitleCall \/ RenderReturn

SpecEscape == InitVersions /\ [][NextEscape]_vars

(***************************************************************************)
(* The changelog renderer (renderWithConfig, generateChangeLog).  The      *)
(* changelog is kept as the sequence of its pieces: a rendered change      *)
(* line, a rendered category header, a newline, the opening and closing    *)
(* tags of a collapsible block and its summary.                            *)
(***************************************************************************)
Category(title, commitTypes, collapseAfter) ==
  [title |-> title, commitTypes |-> commitTypes, collapseAfter |-> collapseAfter]
RenderConfig(categories, noChangesTemplate) ==
  [categories |-> categories, noChangesTemplate |-> noChangesTemplate]

NL == [k |-> "newline"]
ItemLine(item) == [k |-> "change", item |-> item]
HeaderLine(title) == [k |-> "header", title |-> title]
DetailsOpen == [k |-> "<details>"]
DetailsClose == [k |-> "</details>"]
Summary(text) == [k |-> "summary", text |-> text]
TemplateText(text) == [k |-> "text", text |-> text]
DefaultNoChangesTemplate == "* No changes"

\* The category an item is pushed to: the first whose commit-types holds the
\* item's type, or holds 'breaking' while the item is breaking; 0 stands for
\* the uncategorized list.
matchesCategory(item, cat) ==
  LET matchesType == item.type \in cat.commitTypes
      matchesBreaking == item.breaking /\ "breaking" \in cat.commitTypes
  IN matchesType \/ matchesBreaking

\* Variant: the last matching category takes the item.
categoryOf_Last(item, categories) ==
  IF \E c \in 1..Len(categories) : matchesCategory(item, categories[c])
  THEN CHOOSE c \in 1..Len(categories) :
         /\ matchesCategory(item, categories[c])
         /\ \A d \in (c + 1)..Len(categories) : ~matchesCategory(item, categories[d])
  ELSE 0

categoryOf(item, categories) ==
  IF \E c \in 1..Len(categories) : matchesCategory(item, categories[c])
  THEN CHOOSE c \in 1..Len(categories) :
         /\ matchesCategory(item, categories[c])
         /\ \A d \in 1..(c - 1) : ~matchesCategory(item, categories[d])
  ELSE 0

\* cat.items (c > 0) or uncategorized (c = 0) after the grouping loop.
bucket(items, categories, c) ==
  LET inBucket(item) == categoryOf(item, categories) = c
  IN SelectSeq(items, inBucket)

\* items.map(renderItem).join('\n')
RECURSIVE joinItems(_)
joinItems(items) ==
  IF Len(items) = 0 THEN <<>>
  ELSE IF Len(items) = 1 THEN <<ItemLine(items[1])>>
  ELSE <<ItemLine(items[1]), NL>> \o joinItems(Tail(items))

\* Variant: a block is collapsed from the threshold on.
shouldCollapse_AtThreshold(collapseAfter, count) == collapseAfter > 0 /\ count >= collapseAfter

shouldCollapse(collapseAfter, count) == collapseAfter > 0 /\ count > collapseAfter

summaryText(itemCount) ==
  IF itemCount = 1 THEN [count |-> 1, noun |-> "change"]
  ELSE [count |-> itemCount, noun |-> "changes"]

\* Variant: the uncategorized changes are put after the category blocks.
placeUncategorized_Last(uncategorizedPart, categoryParts) ==
  categoryParts \o (IF uncategorizedPart = <<>> THEN <<>> ELSE <<NL, NL>>)
  \o uncategorizedPart

\* The order of the pieces pushed to changeLog.
placeUncategorized(uncategorizedPart, categoryParts) == uncategorizedPart \o categoryParts

\* The part of one category: nothing for an empty one, else the separator
\* (when a category was added before), the header and the items.
categoryPart(items, categories, c, addedCategories) ==
  LET catItems == bucket(items, categories, c)
      allItems == joinItems(catItems)
  IN (IF addedCategories > 0 THEN <<NL, NL>> ELSE <<>>)
     \o <<HeaderLine(categories[c].title), NL, NL>>
     \o (IF shouldCollapse(categories[c].collapseAfter, Len(catItems))
         THEN <<DetailsOpen, NL, Summary(summaryText(Len(catItems))), NL, NL>>
              \o allItems \o <<NL, DetailsClose>>
         ELSE allItems)

RECURSIVE categoryParts(_, _, _, _)
categoryParts(items, categories, c, addedCategories) ==
  IF c > Len(categories) THEN <<>>
  ELSE IF Len(bucket(items, categories, c)) = 0
  THEN categoryParts(items, categories, c + 1, addedCategories)
  ELSE categoryPart(items, categories, c, addedCategories)
       \o categoryParts(items, categories, c + 1, addedCategories + 1)

\* String.prototype.trim on the joined changelog.
RECURSIVE trimText(_)
trimText(text) ==
  IF Len(text) = 0 THEN text
  ELSE IF text[1] = NL THEN trimText(Tail(text))
  ELSE IF text[Len(text)] = NL THEN trimText(SubSeq(text, 1, Len(text) - 1))
  ELSE text

\* Variant: the built-in text is returned whatever is configured.
noChangesText_BuiltIn(cfg) == DefaultNoChangesTemplate

\* config['no-changes-template'] || '* No changes'
noChangesText(cfg) ==
  IF IsSome(cfg.noChangesTemplate) /\ Get(cfg.noChangesTemplate) # ""
  THEN Get(cfg.noChangesTemplate) ELSE DefaultNoChangesTemplate

\* renderWithConfig(config)
renderWithConfig(items, cfg) ==
  IF Len(items) = 0 THEN <<TemplateText(noChangesText(cfg))>>
  ELSE LET uncategorized == bucket(items, cfg.categories, 0)
           uncategorizedPart ==
             IF Len(uncategorized) > 0 THEN joinItems(uncategorized) \o <<NL, NL>>
             ELSE <<>>
       IN trimText(placeUncategorized(uncategorizedPart,
                                      categoryParts(items, cfg.categories, 1, 0)))

\* generateChangeLog(mergedPullRequests, commits, config, context)
generateChangeLog(commits, cfg) == renderWithConfig(fromCommits(commits, 1), cfg)

\* The collections rendered: up to MaxRender items, each with its position
\* as description.
RenderItemKinds == {Item(t, b) : t \in {"feat", "fix", "chore"}, b \in BOOLEAN}
numbered(kinds) ==
  [i \in 1..Len(kinds) |->
     [type |-> kinds[i].type, breaking |-> kinds[i].breaking, description |-> i]]
RenderCollections == {numbered(kinds) : kinds \in SeqsUpTo(RenderItemKinds, MaxRender)}
\* The category lists configured: up to two categories with one threshold.
CategoriesWith(collapseAfter) ==
  {Category("Features", {"feat"}, collapseAfter),
   Category("Bug Fixes", {"fix"}, collapseAfter),
   Category("Breaking", {"breaking"}, collapseAfter),
   Category("Changes", {"feat", "fix"}, collapseAfter)}
CategoryLists ==
  UNION {SeqsUpTo(CategoriesWith(th), 2) : th \in 0..MaxCollapse}
\* no-changes-template: absent, the default, or a text of the user (the
\* schema admits no empty string).
NoChangesTemplates == {None, Some(DefaultNoChangesTemplate), Some("Nothing new")}
\* The template is read for the empty collection only.
NoChangesTemplatesFor(items) ==
  IF Len(items) = 0 THEN NoChangesTemplates ELSE {Some(DefaultNoChangesTemplate)}

RenderWithConfigCall ==
  /\ renderCall = NoCall
  /\ \E items \in RenderCollections, categories \in CategoryLists :
     \E noChanges \in NoChangesTemplatesFor(items) :
       LET cfg == RenderConfig(categories, noChanges)
       IN renderCall' = Some([fn |-> "renderWithConfig", items |-> items,
                              config |-> cfg, ret |-> renderWithConfig(items, cfg)])
  /\ UNCHANGED <<defaultVersionInfo, viCall, bumpCall, releases, nextId, config, run,
                 genFirst, genLast, parseCall, assets, libCall>>

GenerateChangeLogCall ==
  /\ renderCall = NoCall
  /\ \E commits \in SeqsUpTo(CommitMessages, MaxCommits),
        categories \in SeqsUpTo(CategoriesWith(0), 2),
        noChanges \in NoChangesTemplates :
       LET cfg == RenderConfig(categories, noChanges)
       IN renderCall' = Some([fn |-> "generateChangeLog", items |-> fromCommits(commits, 1),
                              config |-> cfg, ret |-> generateChangeLog(commits, cfg)])
  /\ UNCHANGED <<defaultVersionInfo, viCall, bumpCall, releases, nextId, config, run,
                 genFirst, genLast, parseCall, assets, libCall>>

NextRender == RenderWithConfigCall \/ GenerateChangeLogCall \/ RenderReturn

SpecRender == InitVersions /\ [][NextRender]_vars

(***************************************************************************)
(* Properties of the version resolver (checked under SpecVersions).        *)
(***************************************************************************)
Returned == viCall # NoCall
CallPrior == coerceVersionRelease(Get(viCall).release)
CallOverride == coerceVersionString(Get(viCall).inputVersion)
CallDraft == coerceVersionString(Get(viCall).draftVersion)
CallResolved == Get(viCall).ret.RESOLVED_VERSION

\* The version the bump class gives from the prior version: the increment
\* requested (patch when none is), or a prerelease step when a prerelease-family
\* increment meets a prior version that is itself a prerelease.
CallComputed ==
  LET inc == Get(viCall).versionKeyIncrement
      stepsPrerelease == startsWithPre(inc) /\ Len(Get(CallPrior).prerelease) > 0
  IN SemverInc(Get(CallPrior),
               IF stepsPrerelease THEN "prerelease" ELSE IF inc = "" THEN "patch" ELSE inc,
               Get(viCall).preReleaseIdentifier)

HigherOf(a, b) == IF SemverGt(a, b) THEN a ELSE b

PlainDraftCase ==
  /\ Returned
  /\ IsSome(CallPrior)
  /\ ~IsSome(CallOverride)
  /\ IsSome(CallDraft) /\ ~hasPreReleaseTag(CallDraft)

\* C3: with a prior version, no override and a draft version D without
\* prerelease tag, getVersionInfo resolves D when D is strictly greater than
\* the computed version and the computed version otherwise.
C3_DraftIsFloorNotCeiling ==
  PlainDraftCase => CallResolved = Some(HigherOf(Get(CallDraft), CallComputed))

C3_Witness ==
  /\ PlainDraftCase
  /\ SemverGt(Get(CallDraft), CallComputed)
  /\ CallResolved = CallDraft

PlainOverrideCase ==
  /\ Returned
  /\ IsSome(CallPrior)
  /\ IsSome(CallOverride) /\ ~hasPreReleaseTag(CallOverride)

PrereleaseDraftCase ==
  /\ Returned
  /\ ~IsSome(CallOverride)
  /\ hasPreReleaseTag(CallDraft)

\* C5: with no override and a draft version that carries a prerelease tag,
\* getVersionInfo resolves the draft version exactly, whatever the prior
\* version and the bump class are.
C5_PrereleaseDraftPreserved ==
  PrereleaseDraftCase => CallResolved = CallDraft

C5_Witness ==
  /\ PrereleaseDraftCase
  /\ IsSome(CallPrior)
  /\ SemverGt(CallComputed, Get(CallDraft))
  /\ CallResolved = CallDraft

PrereleaseOverrideCase ==
  /\ Returned
  /\ hasPreReleaseTag(CallOverride)

\* C6: an override that carries a prerelease tag is resolved exactly, whatever
\* the prior version, the draft version and the bump class are.
C6_PrereleaseOverrideWins ==
  PrereleaseOverrideCase => CallResolved = CallOverride

C6_Witness ==
  /\ PrereleaseOverrideCase
  /\ IsSome(CallPrior)
  /\ IsSome(CallDraft)
  /\ SemverGt(CallComputed, Get(CallOverride))
  /\ CallResolved = CallOverride

\* C7: every getVersionInfo call returns a result whose $RESOLVED_VERSION is
\* defined, for every combination of prior, override and draft inputs.
C7_ResolvedAlwaysDefined ==
  Returned => IsSome(CallResolved)

NoVersionCase ==
  /\ Returned
  /\ ~IsSome(CallPrior) /\ ~IsSome(CallOverride) /\ ~IsSome(CallDraft)

\* C8: after any sequence of calls, a call with no prior version, no override
\* and no draft resolves 0.1.0, or 0.1.0-rc.0 when the increment is of the
\* prerelease family.
C8_DefaultIndependentOfHistory ==
  NoVersionCase =>
    CallResolved =
      IF startsWithPre(Get(viCall).versionKeyIncrement)
      THEN Some(SemVer(0, 1, 0, <<Str("rc"), Num(0)>>))
      ELSE Some(SemVer(0, 1, 0, <<>>))

(***************************************************************************)
(* Properties of the bump policy (checked under SpecBump).                 *)
(***************************************************************************)
BumpBreaking == \E i \in 1..Len(Get(bumpCall).items) : Get(bumpCall).items[i].breaking
BumpFeature == \E i \in 1..Len(Get(bumpCall).items) : Get(bumpCall).items[i].type = "feat"
BumpPreOneZero == Get(bumpCall).policy.preOneZeroMinorForBreaking # Some(FALSE)
BumpNoAutoMajor == Get(bumpCall).policy.noAutoMajor # Some(FALSE)
BumpCurrentMajor ==
  IF IsSome(Get(bumpCall).policy.currentMajor) THEN Get(Get(bumpCall).policy.currentMajor)
  ELSE 0

\* C10: resolveVersionBump is the decision table: breaking, currentMajor = 0
\* and preOneZeroMinorForBreaking give minor; otherwise breaking and
\* noAutoMajor give minor; otherwise breaking gives major; otherwise a feature
\* gives minor; otherwise patch, also for the empty collection.
C10_BumpDecisionTable ==
  bumpCall # NoCall =>
    Get(bumpCall).ret =
      CASE BumpBreaking /\ BumpCurrentMajor = 0 /\ BumpPreOneZero -> "minor"
        [] BumpBreaking /\ ~(BumpCurrentMajor = 0 /\ BumpPreOneZero) /\ BumpNoAutoMajor -> "minor"
        [] BumpBreaking /\ ~(BumpCurrentMajor = 0 /\ BumpPreOneZero) /\ ~BumpNoAutoMajor -> "major"
        [] ~BumpBreaking /\ BumpFeature -> "minor"
        [] OTHER -> "patch"

\* A breaking change after 1.0 with the no-auto-major guard on: minor.
C10_Witness ==
  /\ bumpCall # NoCall
  /\ BumpBreaking /\ BumpCurrentMajor > 0 /\ BumpNoAutoMajor
  /\ Get(bumpCall).ret = "minor"

\* C12 as stated: major is returned only when preOneZeroMinorForBreaking and
\* noAutoMajor are both false.
C12_MajorOnlyIfBothGuardsOff ==
  (bumpCall # NoCall /\ Get(bumpCall).ret = "major")
    => (~BumpPreOneZero /\ ~BumpNoAutoMajor)

\* C12 as the code has it: major is returned only for a breaking change with
\* noAutoMajor false and the pre-1.0 guard not applying, that is with
\* currentMajor other than 0 or preOneZeroMinorForBreaking false; every other
\* call returns minor or patch.
C12_MajorOnlyIfNoGuardApplies ==
  bumpCall # NoCall =>
    /\ Get(bumpCall).ret \in {"major", "minor", "patch"}
    /\ Get(bumpCall).ret = "major"
         <=> /\ BumpBreaking
             /\ ~BumpNoAutoMajor
             /\ (BumpCurrentMajor # 0 \/ ~BumpPreOneZero)

\* A major bump returned while preOneZeroMinorForBreaking is still on.
C12_Witness ==
  /\ bumpCall # NoCall
  /\ Get(bumpCall).ret = "major"
  /\ BumpPreOneZero /\ ~BumpNoAutoMajor /\ BumpCurrentMajor > 0

(***************************************************************************)
(* Properties of the drafter handler (checked under SpecDrafter).          *)
(***************************************************************************)
RunDone == run # None /\ ~Get(run).dryRun
RunDraftVersion == coerceVersionRelease(asVersionSource(Get(run).draftRelease))
\* The version computed from the prior release and the commits alone.
RunComputed ==
  getVersionInfo(InitialDefaultVersionInfo, asVersionSource(Get(run).lastRelease),
                 None, Get(run).versionKeyIncrement,
                 Get(config).preReleaseIdentifier, None).ret.RESOLVED_VERSION

\* The run C1 is about: no version input, a prior release with a version, a
\* draft release found whose tag is a plain (non-prerelease) version.
HumanSetDraftCase ==
  /\ RunDone
  /\ ~IsSome(Get(run).version)
  /\ IsSome(coerceVersionRelease(asVersionSource(Get(run).lastRelease)))
  /\ IsSome(Get(run).draftRelease)
  /\ IsSome(RunDraftVersion)
  /\ ~hasPreReleaseTag(RunDraftVersion)

\* C1: in a run with no version input where the draft release found carries
\* the plain version D and the prior release the version P, the version
\* written to the release is the greater of D and the version computed from P
\* and the commits.
C1_DraftVersionIsFloorInRun ==
  HumanSetDraftCase =>
    Get(run).resolvedVersion = HigherOf(Get(RunDraftVersion), Get(RunComputed))

\* C2: at most one draft release exists at any time: a run creates a release
\* only when there is no draft, and updates the draft otherwise.
C2_AtMostOneDraft ==
  /\ NumDrafts(releases) <= 1
  /\ (RunDone /\ Get(run).shouldDraft /\ Get(run).op = "create")
       => NumDrafts(releases) = 1

(***************************************************************************)
(* Properties of the assembler (checked under SpecAssemble).               *)
(***************************************************************************)
\* C9: two calls of generateReleaseInfo with the same commits, config, prior
\* release and overrides return the same body, tag and name.
C9_GenerateReleaseInfoIdempotent ==
  (genFirst # NoCall /\ genLast # NoCall /\ Get(genFirst).args = Get(genLast).args)
    => /\ Get(genFirst).info.body = Get(genLast).info.body
       /\ Get(genFirst).info.tag = Get(genLast).info.tag
       /\ Get(genFirst).info.name = Get(genLast).info.name

\* The call C11 and C13 are about: no override, a prior release whose version
\* is below 1.0.0, the version-resolver flags at their defaults.
GenPrior == coerceVersionRelease(asVersionSource(Get(genLast).args.lastRelease))
GenResolved == Get(genLast).info.resolvedVersion
PreOneZeroCase ==
  /\ genLast # NoCall
  /\ ~IsSome(Get(genLast).args.version)
  /\ Get(genLast).args.config.preOneZeroMinorForBreaking
  /\ Get(genLast).args.config.noAutoMajor
  /\ IsSome(GenPrior)
  /\ Get(GenPrior).major = 0

C13_PreOneZeroFeatureIsPatch ==
  (PreOneZeroCase /\ hasFeatures(Get(genLast).args.commits)
     /\ ~hasBreakingChanges(Get(genLast).args.commits) /\ ~hasPreReleaseTag(GenPrior))
    => /\ Get(genLast).info.versionKeyIncrement \in {"patch", "prepatch"}
       /\ GenResolved.minor = Get(GenPrior).minor
       /\ GenResolved.patch = Get(GenPrior).patch + 1

(***************************************************************************)
(* Properties of the commit parser (checked under SpecParse).              *)
(***************************************************************************)
ParseDone == parseCall # NoCall /\ Get(parseCall).fn = "parseSemanticCommit"
ParsedMessage == Get(parseCall).commits[1]
ParsedLines == IF IsSome(ParsedMessage) THEN Get(ParsedMessage) ELSE <<>>
\* A line of the form type[(scope)][!]: description whose type is, without
\* regard to case, one of the fixed vocabulary.
IsSemanticLine(line) ==
  /\ line.kind = "header"
  /\ line.scope # "empty"
  /\ line.text # ""
  /\ toLowerCase(line.type) \in CommitTypeKeys

\* C14: parseSemanticCommit returns one record for each line of the message
\* that has the form type[(scope)][!]: description with a type of the fixed
\* vocabulary, in line order, and nothing for any other line; a null or
\* empty message gives the empty sequence.
C14_OneRecordPerSemanticLine ==
  ParseDone =>
    LET expected == SelectSeq(ParsedLines, IsSemanticLine)
        ret == Get(parseCall).ret
    IN /\ Len(ret) = Len(expected)
       /\ \A j \in 1..Len(ret) :
            /\ j <= Len(expected)
            /\ ret[j].raw = trim(expected[j])
            /\ ret[j].type = toLowerCase(expected[j].type)

FromCommitsDone == parseCall # NoCall /\ Get(parseCall).fn = "fromCommits"
MarkerIn(message) ==
  IsSome(message) /\ \E i \in 1..Len(Get(message)) : Get(message)[i].text = "marker"

\* C15: every record parsed from a message that holds BREAKING CHANGE: is
\* breaking; a record of a message without it is breaking exactly when its
\* own line has the ! marker; in fromCommits the message that counts is the
\* one of the record's own commit.
C15_BreakingPropagation ==
  /\ ParseDone =>
       \A j \in 1..Len(Get(parseCall).ret) :
         Get(parseCall).ret[j].breaking
           <=> (MarkerIn(ParsedMessage) \/ Get(parseCall).ret[j].raw.bang)
  /\ FromCommitsDone =>
       \A j \in 1..Len(Get(parseCall).ret) :
         LET item == Get(parseCall).ret[j]
         IN item.breaking
              <=> (MarkerIn(Get(parseCall).commits[item.commitSha]) \/ item.raw.bang)
\* Two records of one message, the marker on a later line, both breaking.
C15_Witness ==
  /\ ParseDone
  /\ Len(ParsedLines) = 2
  /\ ParsedLines[2] = Prose("marker")
  /\ Len(Get(parseCall).ret) = 1
  /\ ~Get(parseCall).ret[1].raw.bang
  /\ Get(parseCall).ret[1].breaking

(***************************************************************************)
(* Properties of title escaping (checked under SpecEscape).                *)
(***************************************************************************)
EscapeDone == renderCall # NoCall /\ Get(renderCall).fn = "escapeTitle"
EscTitle == Get(renderCall).title
EscSet == Get(renderCall).escapeChars
RECURSIVE Flatten(_)
Flatten(seqs) == IF seqs = <<>> THEN <<>> ELSE Head(seqs) \o Flatten(Tail(seqs))
\* Position i lies in a backtick-delimited span, the backticks being paired
\* from the left.
InSpan(title, i) ==
  LET before == Cardinality({p \in 1..(i - 1) : title[p] = Backtick})
      after == \E p \in (i + 1)..Len(title) : title[p] = Backtick
  IN IF title[i] = Backtick THEN before % 2 = 1 \/ after
     ELSE before % 2 = 1 /\ after
Escaped(c) == IF c \in {"@", "#"} THEN <<c, CommentMarker>> ELSE <<Backslash, c>>

\* C19 as stated: for every non-empty escape set, each escape-set character
\* outside a backtick span is followed by the comment marker when it is @ or
\* #, preceded by a backslash otherwise, and everything else, the spans
\* included, is unchanged.
C19_EscapeOutsideSpans ==
  (EscapeDone /\ EscSet # {}) =>
    Get(renderCall).ret =
      Flatten([i \in 1..Len(EscTitle) |->
                 IF EscTitle[i] \in EscSet /\ ~InSpan(EscTitle, i)
                 THEN Escaped(EscTitle[i]) ELSE <<EscTitle[i]>>])

\* C19 as the code has it: the above for an escape set without the backtick;
\* with the backtick in the set no span is kept, and every escape-set
\* character of the title, backticks included, is escaped.
C19_EscapeOutsideSpansUnlessBacktickEscaped ==
  (EscapeDone /\ EscSet # {}) =>
    Get(renderCall).ret =
      Flatten([i \in 1..Len(EscTitle) |->
                 IF /\ EscTitle[i] \in EscSet
                    /\ (Backtick \in EscSet \/ ~InSpan(EscTitle, i))
                 THEN Escaped(EscTitle[i]) ELSE <<EscTitle[i]>>])
\* `#`# with # escaped: the first # is kept, the second gets the marker.
C19_Witness ==
  /\ EscapeDone
  /\ EscTitle = <<Backtick, "#", Backtick, "#">>
  /\ EscSet = {"#"}
  /\ Get(renderCall).ret = <<Backtick, "#", Backtick, "#", CommentMarker>>

(***************************************************************************)
(* Properties of the changelog renderer (checked under SpecRender).        *)
(***************************************************************************)
RenderDone ==
  /\ renderCall # NoCall
  /\ Get(renderCall).fn = "renderWithConfig"
  /\ Len(Get(renderCall).items) > 0
RItems == Get(renderCall).items
RCats == Get(renderCall).config.categories
ROut == Get(renderCall).ret
\* Where a record is rendered, the header above a position (0 for none) and
\* the end of the block a header opens.
PositionsOf(item) == {k \in 1..Len(ROut) : ROut[k] = [k |-> "change", item |-> item]}
PositionOf(item) == CHOOSE k \in PositionsOf(item) : TRUE
Headers == {h \in 1..Len(ROut) : ROut[h].k = "header"}
HeaderAbove(k) ==
  IF \E h \in Headers : h < k THEN CHOOSE h \in Headers : h < k /\ \A g \in Headers : g < k => g <= h
  ELSE 0
BlockEnd(h) ==
  IF \E g \in Headers : g > h THEN CHOOSE g \in Headers : g > h /\ \A f \in Headers : f > h => g <= f
  ELSE Len(ROut) + 1
\* The first configured category that takes the record, 0 for none.
Takes(cat, item) ==
  item.type \in cat.commitTypes \/ ("breaking" \in cat.commitTypes /\ item.breaking)
FirstCategory(item) ==
  IF \E c \in 1..Len(RCats) : Takes(RCats[c], item)
  THEN CHOOSE c \in 1..Len(RCats) :
         Takes(RCats[c], item) /\ \A d \in 1..(c - 1) : ~Takes(RCats[d], item)
  ELSE 0
CountIn(c) == Cardinality({i \in 1..Len(RItems) : FirstCategory(RItems[i]) = c})

\* C16: every record is rendered exactly once, under the header of the first
\* configured category that takes its type (or takes breaking while the
\* record is breaking), and above every header when no category takes it.
C16_OneBucketPerRecord ==
  RenderDone =>
    /\ Cardinality({k \in 1..Len(ROut) : ROut[k].k = "change"}) = Len(RItems)
    /\ \A i \in 1..Len(RItems) :
         /\ Cardinality(PositionsOf(RItems[i])) = 1
         /\ LET h == HeaderAbove(PositionOf(RItems[i]))
                c == FirstCategory(RItems[i])
            IN IF c = 0 THEN h = 0
               ELSE h # 0 /\ ROut[h].title = RCats[c].title
\* A breaking fix with the categories Breaking, Bug Fixes: under Breaking.
C16_Witness ==
  /\ RenderDone
  /\ Len(RCats) = 2 /\ RCats[1].title = "Breaking" /\ RCats[2].title = "Bug Fixes"
  /\ \E i \in 1..Len(RItems) :
       /\ RItems[i].type = "fix" /\ RItems[i].breaking
       /\ PositionsOf(RItems[i]) # {}
       /\ HeaderAbove(PositionOf(RItems[i])) # 0
       /\ ROut[HeaderAbove(PositionOf(RItems[i]))].title = "Breaking"

\* C17: uncategorized records come before every category block, the blocks
\* come in configuration order, records of one bucket keep the order of the
\* collection, and only a category with a record has a header.
C17_RenderOrder ==
  RenderDone =>
    /\ \A i, j \in 1..Len(RItems) :
         (PositionsOf(RItems[i]) # {} /\ PositionsOf(RItems[j]) # {}) =>
           LET ci == FirstCategory(RItems[i])
               cj == FirstCategory(RItems[j])
           IN (ci < cj \/ (ci = cj /\ i < j))
                => PositionOf(RItems[i]) < PositionOf(RItems[j])
    /\ \A i \in 1..Len(RItems) : \A h \in Headers :
         (FirstCategory(RItems[i]) = 0 /\ PositionsOf(RItems[i]) # {})
           => PositionOf(RItems[i]) < h
    /\ Cardinality(Headers) = Cardinality({c \in 1..Len(RCats) : CountIn(c) > 0})
    /\ \A h \in Headers : \E c \in 1..Len(RCats) :
         CountIn(c) > 0 /\ RCats[c].title = ROut[h].title
\* An uncategorized record that is last in the collection and first in the
\* changelog, with a second category left without header.
C17_Witness ==
  /\ RenderDone
  /\ Len(RItems) = 3 /\ Len(RCats) = 2
  /\ FirstCategory(RItems[3]) = 0 /\ FirstCategory(RItems[1]) = 1
  /\ CountIn(2) = 0
  /\ ROut[1] = [k |-> "change", item |-> RItems[3]]
  /\ Cardinality(Headers) = 1

\* C18: a category with collapse-after above 0 and more items than that has
\* all its items inside one collapsible block whose summary reads N changes;
\* any other category has no collapsible block.
C18_CollapseThreshold ==
  RenderDone =>
    \A h \in Headers :
      LET c == CHOOSE d \in 1..Len(RCats) : CountIn(d) > 0 /\ RCats[d].title = ROut[h].title
          block == {k \in (h + 1)..(BlockEnd(h) - 1) : TRUE}
          opens == {k \in block : ROut[k].k = "<details>"}
          closes == {k \in block : ROut[k].k = "</details>"}
          summaries == {k \in block : ROut[k].k = "summary"}
          changes == {k \in block : ROut[k].k = "change"}
      IN IF RCats[c].collapseAfter > 0 /\ CountIn(c) > RCats[c].collapseAfter
         THEN /\ Cardinality(opens) = 1 /\ Cardinality(closes) = 1
              /\ Cardinality(summaries) = 1
              /\ Cardinality(changes) = CountIn(c)
              /\ \A s \in summaries :
                   ROut[s].text = [count |-> CountIn(c), noun |-> "changes"]
              /\ \A k \in changes : \A o \in opens : \A e \in closes : \A s \in summaries :
                   o < s /\ s < k /\ k < e
         ELSE opens = {} /\ closes = {} /\ summaries = {}
\* Three items over the threshold 2 in one block, summary 3 changes.
C18_Witness ==
  /\ RenderDone
  /\ Len(RCats) = 1 /\ RCats[1].collapseAfter = 2 /\ CountIn(1) = 3
  /\ \E s \in 1..Len(ROut) :
       ROut[s] = [k |-> "summary", text |-> [count |-> 3, noun |-> "changes"]]

ChangeLogDone == renderCall # NoCall /\ Get(renderCall).fn = "generateChangeLog"
\* C20: when the commits give no record, generateChangeLog returns the
\* configured no-changes-template, whatever the categories are.
C20_NoChangesTemplate ==
  (ChangeLogDone /\ Len(RItems) = 0 /\ IsSome(Get(renderCall).config.noChangesTemplate))
    => ROut = <<[k |-> "text", text |-> Get(Get(renderCall).config.noChangesTemplate)]>>
\* Categories configured, a template of the user, no record: the template.
C20_Witness ==
  /\ ChangeLogDone
  /\ Len(RItems) = 0
  /\ Len(RCats) = 2
  /\ Get(renderCall).config.noChangesTemplate = Some("Nothing new")
  /\ ROut = <<[k |-> "text", text |-> "Nothing new"]>>

(***************************************************************************)
(* Properties of the commit sources (checked under SpecSources).           *)
(***************************************************************************)
SourceDone ==
  /\ parseCall # NoCall
  /\ Get(parseCall).fn \in {"findCommitsFromLocalGit", "findCommitsWithAssociatedPullRequests"}

\* C21: every record derived from a commit of either source carries the full
\* hash of that commit as commitSha, and $SHA is the first 7 characters of
\* that hash.
C21_RecordCarriesCommitHash ==
  SourceDone =>
    \A j \in 1..Len(Get(parseCall).ret) :
      LET r == Get(parseCall).ret[j]
          hash == Get(parseCall).hashes[r.commit]
      IN /\ r.commitSha = Some(hash)
         /\ renderSha(r.commitSha) = SubSeq(hash, 1, ShortLen)

(***************************************************************************)
(* Properties of the release assets (checked under SpecAssets).            *)
(***************************************************************************)
\* A step in which a drafter run takes place, and the run it leaves.
RunStep == run = None /\ run' # None
AssetNames(as, releaseId) == {a.name : a \in {b \in as : b.release = releaseId}}
CallsOf(r, op) == {k \in 1..Len(r.calls) : r.calls[k].op = op}

\* C22: when manageReleaseAssets returns without error, every asset the
\* release had before was deleted before the first upload, and exactly one
\* upload was issued for each resolved file.
C22_DeleteAllThenUploadEach ==
  [][(RunStep /\ ~Get(run').dryRun /\ IsSome(Get(run').attachFiles) /\ ~Get(run').failed)
       => LET r == Get(run')
          IN /\ \A n \in AssetNames(assets, r.releaseId) :
                  \E k \in CallsOf(r, "delete") :
                    r.calls[k].name = n /\ \A u \in CallsOf(r, "upload") : k < u
             /\ \A i \in 1..Len(r.filesToAttach) :
                  Cardinality({u \in CallsOf(r, "upload") :
                                 r.calls[u].name = r.filesToAttach[i]}) = 1
             /\ Cardinality(CallsOf(r, "upload")) = Len(r.filesToAttach)]_vars
\* A run that found one asset on the draft, deleted it and uploaded two files.
C22_Witness ==
  /\ run # None
  /\ ~Get(run).dryRun /\ ~Get(run).failed
  /\ Get(run).op = "update"
  /\ Get(run).calls = <<[op |-> "delete", name |-> "b.whl"],
                        [op |-> "upload", name |-> "a.tar.gz"],
                        [op |-> "upload", name |-> "b.whl"]>>

C27_DryRunChangesNothing ==
  [][(RunStep /\ Get(run').dryRun)
       => /\ Get(run').op = "none"
          /\ Get(run').calls = <<>>
          /\ releases' = releases
          /\ assets' = assets]_vars
\* A dry-run with files to attach, over a draft that has an asset.
C27_Witness ==
  /\ run # None
  /\ Get(run).dryRun
  /\ IsSome(Get(run).draftRelease)
  /\ Len(Get(run).filesToAttach) > 0
  /\ AssetNames(assets, Get(Get(run).draftRelease).id) # {}
  /\ \E a \in {"a.tar.gz", "b.whl"} :
       a \in {Get(run).filesToAttach[i] : i \in 1..Len(Get(run).filesToAttach)}
         /\ a \notin AssetNames(assets, Get(Get(run).draftRelease).id)

(***************************************************************************)
(* Properties of findReleases (checked under SpecFind).                    *)
(***************************************************************************)
FindDone == libCall # NoCall /\ Get(libCall).fn = "findReleases"
FoundLast == Get(libCall).ret.lastRelease
\* The releases that qualify as last release.
Qualifying ==
  {r \in {Get(libCall).releases[i] : i \in 1..Len(Get(libCall).releases)} :
     /\ r.tag_name.kind # "foreign"
     /\ ~r.draft
     /\ ~r.prerelease \/ Get(libCall).includePreReleases}
GreatestQualifying ==
  IF Qualifying = {} THEN FoundLast = None
  ELSE /\ IsSome(FoundLast)
       /\ Get(FoundLast) \in Qualifying
       /\ \A q \in Qualifying :
            q.tag_name.kind # "garbage"
              => /\ Get(FoundLast).tag_name.kind # "garbage"
                 /\ SemverCompare(q.tag_name.v, Get(FoundLast).tag_name.v) <= 0

PlainPriorCase == Returned /\ IsSome(CallPrior) /\ ~hasPreReleaseTag(CallPrior)

\* C25: with a prior version X.Y.Z that has no prerelease tag, the next-patch
\* point is X.Y.(Z+1), the next-minor point X.(Y+1).0 and the next-major
\* point (X+1).0.0, whatever the bump class, the override and the draft are.
C25_NextVersionPoints ==
  PlainPriorCase =>
    LET p == Get(CallPrior)
        ret == Get(viCall).ret
    IN /\ ret.NEXT_PATCH_VERSION = Some(SemVer(p.major, p.minor, p.patch + 1, <<>>))
       /\ ret.NEXT_MINOR_VERSION = Some(SemVer(p.major, p.minor + 1, 0, <<>>))
       /\ ret.NEXT_MAJOR_VERSION = Some(SemVer(p.major + 1, 0, 0, <<>>))
\* Prior 1.1.1 with a major bump, an override and a draft: 1.1.2, 1.2.0, 2.0.0.
C25_Witness ==
  /\ PlainPriorCase
  /\ CallPrior = Some(SemVer(1, 1, 1, <<>>))
  /\ Get(viCall).versionKeyIncrement = "major"
  /\ IsSome(CallOverride) /\ IsSome(CallDraft)
  /\ Get(viCall).ret.NEXT_PATCH_VERSION = Some(SemVer(1, 1, 2, <<>>))
  /\ Get(viCall).ret.NEXT_MINOR_VERSION = Some(SemVer(1, 2, 0, <<>>))
  /\ Get(viCall).ret.NEXT_MAJOR_VERSION = Some(SemVer(2, 0, 0, <<>>))

\* C30: the $INPUT_VERSION point is present only when an override was
\* supplied, and is then that override; with no override it is absent,
\* whatever the draft version is.
C30_InputVersionIsTheOverride ==
  Returned =>
    /\ IsSome(Get(viCall).ret.INPUT_VERSION)
         => /\ IsSome(Get(viCall).inputVersion)
            /\ Get(viCall).ret.INPUT_VERSION = CallOverride
    /\ ~IsSome(Get(viCall).inputVersion) => ~IsSome(Get(viCall).ret.INPUT_VERSION)

(***************************************************************************)
(* Properties of the contributors sentence (checked under                  *)
(* SpecContributors).                                                      *)
(***************************************************************************)
SentenceDone == libCall # NoCall /\ Get(libCall).fn = "contributorsSentence"
Sentence == Get(libCall).ret
\* The name or login each contributor goes by: the login of a commit author
\* with a user, the name of one without, the login of a pull-request author.
ContributorIds ==
  {IF IsSome(Get(libCall).commits[i].user) THEN Get(Get(libCall).commits[i].user)
   ELSE Get(libCall).commits[i].name : i \in 1..Len(Get(libCall).commits)}
  \cup {Get(Get(libCall).pullRequests[i]).login :
          i \in {j \in 1..Len(Get(libCall).pullRequests) :
                   IsSome(Get(libCall).pullRequests[j])}}
Remaining == ContributorIds \ Get(libCall).excludeContributors
EntriesOf(id) ==
  {k \in 1..Len(Sentence) : Sentence[k].k = "entry" /\ Sentence[k].text = id}

\* C26: the sentence lists each contributor that is not excluded exactly
\* once and no excluded one, joins the entries with ", " and a final
\* " and ", and is the no-contributors template when nobody remains.
C26_ContributorsSentence ==
  SentenceDone =>
    IF Remaining = {} THEN Sentence = <<NoContributorsTemplate>>
    ELSE /\ \A id \in Remaining : Cardinality(EntriesOf(id)) = 1
         /\ \A id \in Get(libCall).excludeContributors : EntriesOf(id) = {}
         /\ Len(Sentence) = 2 * Cardinality(Remaining) - 1
         /\ \A k \in 1..Len(Sentence) :
              IF k % 2 = 1 THEN Sentence[k].k = "entry"
              ELSE Sentence[k] = Separator(IF k = Len(Sentence) - 1 THEN " and " ELSE ", ")

(***************************************************************************)
(* The two bump functions compared (checked under SpecBump).               *)
(***************************************************************************)
\* C28: the collection method resolveVersionBump and the function
\* resolveVersionBumpFromChangeItems return the same bump for every
\* collection and every policy, fields left out included.
C28_BumpFunctionsAgree ==
  bumpCall # NoCall => Get(bumpCall).ret = Get(bumpCall).retFromChangeItems
\* A breaking change with every policy field left out: both return minor.
C28_Witness ==
  /\ bumpCall # NoCall
  /\ BumpBreaking
  /\ Get(bumpCall).policy = Policy(None, None, None)
  /\ Get(bumpCall).ret = "minor"
  /\ Get(bumpCall).retFromChangeItems = "minor"

(***************************************************************************)
(* The major of the prior release (checked under SpecMajor).               *)
(***************************************************************************)
MajorDone == libCall # NoCall /\ Get(libCall).fn = "generateReleaseInfo"

\* C29: the currentMajor given to the bump policy is the major of the prior
\* version getVersionInfo derives from the same tag with the tag prefix
\* stripped, for every tag and tag prefix, and 0 without a prior release.
C29_CurrentMajorIsPriorMajor ==
  MajorDone =>
    /\ ~IsSome(Get(libCall).lastTag) => Get(libCall).currentMajor = 0
    /\ IsSome(Get(libCall).version)
         => Get(libCall).currentMajor = Get(Get(libCall).version).major

====
